---- MODULE Spec2Model ----
(***************************************************************************)
(* State-machine model of the SNS Maker Hub identity and linking engine:   *)
(* the SQLite-backed HubStore (hub_store.py) and the FastAPI handlers of   *)
(* main.py that drive it.                                                  *)
(*                                                                         *)
(* Granularity.  Every HubStore method opens its own connection.  Python's *)
(* sqlite3 module (default isolation level) runs a SELECT outside of any   *)
(* transaction and opens a transaction in front of the first               *)
(* INSERT/UPDATE/DELETE, which lasts until commit().  SQLite serialises    *)
(* write transactions.  A store method is therefore modelled as one step   *)
(* per SELECT and one step per write transaction; request handlers run     *)
(* concurrently (several workers share the database file) and interleave   *)
(* between these steps.  A handler's locals are kept only while the code   *)
(* still reads them.  The created_at / updated_at columns, which no        *)
(* statement of the modelled operations reads, are left out of the tables. *)
(***************************************************************************)
EXTENDS Integers, Sequences, FiniteSets, TLC

\* ------------------------------------------------------------------ bounds
\* Largest value of the wall clock, in seconds.
MaxTime == 600
\* Seconds by which one Tick advances the wall clock.
TickSeconds == 300
\* Number of nonces secrets.token_urlsafe hands out before creation stops.
MaxNonces == 2
\* Number of state tokens secrets.token_urlsafe hands out before saving stops.
MaxStates == 2
\* Number of session tokens issued before issuing stops.
MaxSessions == 2
\* Largest max_attempts argument of the attempt-counting specification.
MaxAttemptArg == 2
\* Posts saved, and calls made to the provider's refresh and write endpoints.
MaxPosts == 2
MaxCalls == 2
\* Jobs created.
MaxJobs == 2

\* Concurrent request handlers (worker slots).
Procs == {"h1", "h2"}
\* User identifiers that requests may name.
UserIds == {"u1", "u2"}

\* ------------------------------------------------------- program constants
TELEGRAM_VERIFY_TTL_SECONDS == 300
TELEGRAM_VERIFY_MAX_ATTEMPTS == 5
\* naver_client.py: the safety margin NaverToken.expires_at subtracts.
TOKEN_EXPIRY_MARGIN == 30

\* SQL NULL of hub_users.telegram_id.  No code path stores an empty string
\* (register skips a falsy telegram_id, both normalisers reject it).
NULL == <<>>
\* fetchone() found no row.
NoRow == [present |-> FALSE]

\* ------------------------------------------------------------- characters
Digits == {"0", "1", "2", "3", "4", "5", "6", "7", "8", "9"}
Letters == {"a", "b", "c", "e", "i", "l", "n", "o", "t", "A", "Z"}
Whitespace == {" "}

\* Raw telegram identifiers a request body may carry, as character tuples.
RawTelegramIds ==
    { <<"5", "5", "5", "5", "5">>,
      <<" ", "5", "5", "5", "5", "5", " ">>,
      <<"a", "l", "i", "c", "e">>,
      <<"@", "a", "l", "i", "c", "e">>,
      <<"0", "1", "2", "3", "4">>,
      <<"n", "o", "t", "-", "a">>,
      <<>> }

RECURSIVE LStrip(_)
LStrip(s) == IF s # <<>> /\ Head(s) \in Whitespace THEN LStrip(Tail(s)) ELSE s

RECURSIVE RStrip(_)
RStrip(s) ==
    IF s # <<>> /\ s[Len(s)] \in Whitespace
    THEN RStrip(SubSeq(s, 1, Len(s) - 1))
    ELSE s

\* str.strip()
Strip(s) == RStrip(LStrip(s))

\* _TELEGRAM_USERNAME_RE = ^[A-Za-z][A-Za-z0-9_]{4,31}$
MatchesUsername(s) ==
    /\ Len(s) >= 1
    /\ s[1] \in Letters
    /\ Len(s) - 1 >= 4
    /\ Len(s) - 1 <= 31
    /\ \A i \in 2..Len(s) : s[i] \in Letters \cup Digits \cup {"_"}

\* _TELEGRAM_NUMERIC_RE = ^[1-9][0-9]{4,19}$
MatchesNumeric(s) ==
    /\ Len(s) >= 1
    /\ s[1] \in Digits \ {"0"}
    /\ Len(s) - 1 >= 4
    /\ Len(s) - 1 <= 19
    /\ \A i \in 2..Len(s) : s[i] \in Digits

\* _normalize_telegram_id: [ok, value]; ok = FALSE is HTTP 400
\* invalid_telegram_id.
NormalizeTelegramId(value) ==
    LET raw == Strip(value)
        candidate == IF raw # <<>> /\ Head(raw) = "@" THEN Tail(raw) ELSE raw
    IN  IF raw = <<>> THEN [ok |-> FALSE, value |-> NULL]
        ELSE IF MatchesUsername(candidate)
             THEN [ok |-> TRUE, value |-> <<"@">> \o candidate]
        ELSE IF MatchesNumeric(candidate)
             THEN [ok |-> TRUE, value |-> candidate]
        ELSE [ok |-> FALSE, value |-> NULL]

\* _normalize_telegram_numeric_id: [ok, value]; ok = FALSE is HTTP 400
\* invalid_telegram_user_id.
NormalizeTelegramNumericId(value) ==
    LET candidate == Strip(value)
    IN  IF MatchesNumeric(candidate)
        THEN [ok |-> TRUE, value |-> candidate]
        ELSE [ok |-> FALSE, value |-> NULL]


\* ------------------------------------------------------------------ state
VARIABLES
    clock,                  \* time.time(), seconds
    ALLOW_NEW_USERS,        \* app_config.ALLOW_NEW_USERS
    HUB_API_KEY,            \* app_config.HUB_API_KEY ("" = not configured)
    max_attempts,           \* the max_attempts argument of consume/fail
    JWT_TTL_SECONDS,        \* app_config.JWT_TTL_SECONDS
    NAVER_CLIENT_ID,        \* app_config.NAVER_CLIENT_ID ("" = not configured)
    NAVER_CLIENT_SECRET,    \* app_config.NAVER_CLIENT_SECRET
    hub_users,              \* table hub_users: user_id -> [telegram_id]
    telegram_verifications, \* table telegram_verifications: nonce -> row
    issued,                 \* nonces handed out by secrets.token_urlsafe
    consumed_ok,            \* history: consume calls that returned ok, per nonce
    fail_calls,             \* history: fail calls that found the nonce unexpired
    oauth_states,           \* table oauth_states: state -> [user_id, flow]
    saved_states,           \* history: what save_oauth_state stored, per state
    popped,                 \* history: pop calls that returned data, per state
    naver_identities,       \* table naver_identities: naver_id -> user_id
    naver_accounts,         \* table naver_accounts: user_id -> row
    posts,                  \* table posts: post_id -> row
    sessions,               \* session tokens issued by naver_callback
    refresh_calls,          \* history: refresh requests sent to the provider
    write_calls,            \* history: writePost requests sent to the provider
    jobs,                   \* table jobs: job_id -> [user_id, status, created_at]
    fetched,                \* history: fetch_next_job calls that returned the job
    account_rows,           \* the rows of naver_accounts, timestamps included
    identity_rows,          \* the rows of naver_identities, timestamps included
    handler,                \* per worker slot: position and locals of its request
    response                \* the response sent by the last step, if it sent one

vars == <<clock, ALLOW_NEW_USERS, HUB_API_KEY, max_attempts, JWT_TTL_SECONDS,
          NAVER_CLIENT_ID, NAVER_CLIENT_SECRET, naver_identities,
          naver_accounts, posts, sessions, refresh_calls, write_calls, hub_users,
          telegram_verifications, issued, consumed_ok, fail_calls,
          oauth_states, saved_states, popped, jobs, fetched, account_rows,
          identity_rows, handler, response>>

config == <<ALLOW_NEW_USERS, HUB_API_KEY, max_attempts, JWT_TTL_SECONDS,
            NAVER_CLIENT_ID, NAVER_CLIENT_SECRET>>

history == <<consumed_ok, fail_calls>>
oauth == <<oauth_states, saved_states, popped>>
provider == <<refresh_calls, write_calls>>
queue == <<jobs, fetched>>
rows == <<account_rows, identity_rows>>
naver == <<naver_identities, naver_accounts, posts, sessions, provider>>

Nonces == 1..MaxNonces
OauthStates == 1..MaxStates
JobIds == 1..MaxJobs

\* The secret session tokens are signed with.
JWT_SECRET == "jwt-secret"
ApiKeys == {"", "hub-api-key"}

\* Authorization headers: none, or a bearer token.  A token is text that is
\* no JWT (form = "malformed") or a JWT with its claims and the secret that
\* signed it (exp = -1: the token carries no exp claim).
NoAuth == [bearer |-> FALSE]
MalformedToken ==
    [bearer |-> TRUE, form |-> "malformed", sub |-> "", iat |-> 0, exp |-> -1,
     secret |-> ""]
Authorizations ==
    {NoAuth, MalformedToken} \cup
    [bearer : {TRUE}, form : {"jwt"}, sub : UserIds, iat : {0},
     exp : {-1, TickSeconds}, secret : {JWT_SECRET}]
    \cup [bearer : {TRUE}, form : {"jwt"}, sub : {""}, iat : {0}, exp : {-1},
          secret : {JWT_SECRET}]
    \cup [bearer : {TRUE}, form : {"jwt"}, sub : {"u1"}, iat : {0},
          exp : {-1, TickSeconds}, secret : {"forged"}]

\* Locals of a slot with no request in progress.
Idle ==
    [pc |-> "idle", op |-> "", user_id |-> "", nonce |-> 0,
     authorization |-> NoAuth, state |-> 0, flow |-> "", naver_id |-> "",
     account |-> NoRow, token |-> NoRow, session |-> NoAuth, post |-> NoRow,
     post_id |-> 0, title |-> "", refreshes |-> 0, job_id |-> 0, api_key |-> "",
     mapped_user_id |-> "",
     telegram_id |-> NULL, now |-> 0, expires_at |-> 0, row |-> NoRow,
     challenge |-> "none", failed |-> "none", status |-> 0, detail |-> ""]

\* No response was sent by the last step.
NoResponse == Idle

\* _require_key: TRUE when the request passes.
RequireKey(api_key) == HUB_API_KEY = "" \/ api_key = HUB_API_KEY

\* jwt.decode with the validation of exp switched off.
DecodeTokenNoExpiry(token, now) ==
    IF token.form # "jwt" THEN "DecodeError"
    ELSE IF token.secret # JWT_SECRET THEN "InvalidSignatureError"
    ELSE "none"

\* jwt.decode(token, JWT_SECRET, algorithms=["HS256"]): the PyJWTError it
\* raises, or "none".  The token is parsed, then its signature is verified,
\* then exp is validated (expired when exp <= now).
DecodeToken(token, now) ==
    IF token.form # "jwt" THEN "DecodeError"
    ELSE IF token.secret # JWT_SECRET THEN "InvalidSignatureError"
    ELSE IF token.exp # -1 /\ token.exp <= now THEN "ExpiredSignatureError"
    ELSE "none"

\* The HTTPException a PyJWTError is turned into, were it to name the error.
TokenErrorNamed(error) == [status |-> 401, detail |-> error]

\* except jwt.PyJWTError: raise HTTPException(401, "unauthorized")
TokenError(error) == [status |-> 401, detail |-> "unauthorized"]

\* _verify_token: [ok, sub, status, detail]; sub = "" is the None or
\* empty-subject return, ok = FALSE is the HTTPException raised.
VerifyToken(auth, now) ==
    LET error == DecodeToken(auth, now)
    IN  IF ~auth.bearer
        THEN [ok |-> TRUE, sub |-> "", status |-> 200, detail |-> ""]
        ELSE IF JWT_SECRET = ""
        THEN [ok |-> FALSE, sub |-> "", status |-> 500,
              detail |-> "jwt_not_configured"]
        ELSE IF error # "none"
        THEN [ok |-> FALSE, sub |-> "", status |-> TokenError(error).status,
              detail |-> TokenError(error).detail]
        ELSE [ok |-> TRUE, sub |-> auth.sub, status |-> 200, detail |-> ""]

\* A session token issued without its subject.
IssueSessionNoSubject(sub, now) ==
    [bearer |-> TRUE, form |-> "jwt", sub |-> "", iat |-> now,
     exp |-> now + JWT_TTL_SECONDS, secret |-> JWT_SECRET]

\* The session token naver_callback issues: payload sub, iat = now,
\* exp = now + JWT_TTL_SECONDS, signed with JWT_SECRET.
IssueSession(sub, now) ==
    [bearer |-> TRUE, form |-> "jwt", sub |-> sub, iat |-> now,
     exp |-> now + JWT_TTL_SECONDS, secret |-> JWT_SECRET]

\* HubStore.is_user
IsUser(user_id) == user_id \in DOMAIN hub_users

\* HubStore.add_user: INSERT OR IGNORE.
AddUser(users, user_id) ==
    IF user_id \in DOMAIN users THEN users
    ELSE users @@ (user_id :> [telegram_id |-> NULL])

\* A database without idx_hub_users_telegram_id_unique.
UniqueIndexMissing(users, user_id, telegram_id) == TRUE

\* idx_hub_users_telegram_id_unique: whether the partial unique index accepts
\* UPDATE hub_users SET telegram_id = t WHERE user_id = u.
UniqueIndexAccepts(users, user_id, telegram_id) ==
    \/ user_id \notin DOMAIN users
    \/ telegram_id = NULL
    \/ \A v \in DOMAIN users \ {user_id} : users[v].telegram_id # telegram_id

\* The handler of slot p answers at step h.pc with locals h, and the slot is
\* free again.
Respond(p, h, status, detail) ==
    /\ handler' = [handler EXCEPT ![p] = Idle]
    /\ response' = [h EXCEPT !.status = status, !.detail = detail]

\* The handler of slot p goes on to step pc with locals h.
Goto(p, h, pc) ==
    /\ handler' = [handler EXCEPT ![p] = [h EXCEPT !.pc = pc]]
    /\ response' = NoResponse

\* The store _init_db leaves (every table empty), no token issued, no
\* provider call made, no request in progress.
InitStore ==
    /\ clock = 0
    /\ hub_users = <<>>
    /\ telegram_verifications = <<>>
    /\ issued = 0
    /\ consumed_ok = [n \in Nonces |-> 0]
    /\ fail_calls = [n \in Nonces |-> 0]
    /\ naver_identities = <<>>
    /\ naver_accounts = <<>>
    /\ posts = <<>>
    /\ sessions = {}
    /\ refresh_calls = 0
    /\ write_calls = 0
    /\ oauth_states = <<>>
    /\ saved_states = <<>>
    /\ popped = [s \in OauthStates |-> 0]
    /\ jobs = <<>>
    /\ fetched = [j \in JobIds |-> 0]
    /\ account_rows = {}
    /\ identity_rows = {}
    /\ handler = [p \in Procs |-> Idle]
    /\ response = NoResponse

\* The configuration every specification shares: the API key and the
\* provider's client id and secret are set.
InitKeys ==
    /\ HUB_API_KEY = "hub-api-key"
    /\ NAVER_CLIENT_ID = "client-id"
    /\ NAVER_CLIENT_SECRET = "client-secret"

Init ==
    /\ InitStore
    /\ InitKeys
    /\ ALLOW_NEW_USERS = TRUE
    /\ max_attempts = TELEGRAM_VERIFY_MAX_ATTEMPTS
    /\ JWT_TTL_SECONDS = MaxTime + 1

\* Wall-clock time passes.
Tick ==
    /\ clock + TickSeconds <= MaxTime
    /\ clock' = clock + TickSeconds
    /\ response' = NoResponse
    /\ UNCHANGED <<config, rows, queue, oauth, naver, hub_users, telegram_verifications, issued,
                   history, handler>>

\* --------------------------------------------------- HubStore statements
\* set_telegram_id without its ownership check.
OtherOwnerNeverFound(users, user_id, telegram_id) == FALSE

\* SELECT user_id FROM hub_users WHERE telegram_id = ? AND user_id <> ?
\* found a row.
OtherOwnerExists(users, user_id, telegram_id) ==
    \E v \in DOMAIN users \ {user_id} : users[v].telegram_id = telegram_id

\* An UPDATE of hub_users without its WHERE clause.
UpdateTelegramIdEveryUser(users, user_id, telegram_id) ==
    [u \in DOMAIN users |-> [users[u] EXCEPT !.telegram_id = telegram_id]]

\* UPDATE hub_users SET telegram_id = ? WHERE user_id = ?
UpdateTelegramId(users, user_id, telegram_id) ==
    IF user_id \in DOMAIN users
    THEN [users EXCEPT ![user_id].telegram_id = telegram_id]
    ELSE users

\* SELECT ... FROM telegram_verifications WHERE nonce = ? (fetchone)
SelectVerification(table, nonce) ==
    IF nonce \in DOMAIN table
    THEN [present |-> TRUE, nonce |-> nonce, user_id |-> table[nonce].user_id,
          expires_at |-> table[nonce].expires_at,
          attempt_count |-> table[nonce].attempt_count,
          used_at |-> table[nonce].used_at]
    ELSE NoRow

\* A DELETE that leaves the row in place.
DeleteVerificationKeepsRow(table, nonce) == table

\* DELETE FROM telegram_verifications WHERE nonce = ?
DeleteVerification(table, nonce) ==
    [n \in DOMAIN table \ {nonce} |-> table[n]]

\* A rowcount that is taken to be 1 whatever the DELETE found.
DeleteRowcountUnchecked(table, nonce) == 1

\* rowcount of that DELETE
DeleteRowcount(table, nonce) == IF nonce \in DOMAIN table THEN 1 ELSE 0

\* DELETE FROM telegram_verifications WHERE expires_at < ?
DeleteExpired(table, now) ==
    [n \in {m \in DOMAIN table : ~(table[m].expires_at < now)} |-> table[n]]

\* A DELETE of the challenges of every user.
DeleteOfEveryUser(table, user_id) == <<>>

\* DELETE FROM telegram_verifications WHERE user_id = ?
DeleteOfUser(table, user_id) ==
    [n \in {m \in DOMAIN table : table[m].user_id # user_id} |-> table[n]]

\* INSERT ... ON CONFLICT(nonce) DO UPDATE: the row of the nonce becomes the
\* fresh one either way.
UpsertVerification(table, nonce, user_id, expires_at) ==
    [n \in DOMAIN table \cup {nonce} |->
        IF n = nonce
        THEN [user_id |-> user_id, expires_at |-> expires_at,
              attempt_count |-> 0, used_at |-> NULL]
        ELSE table[n]]

\* create_telegram_verification without DELETE ... WHERE user_id = ?.
CreateVerificationKeepsOld(table, nonce, user_id, expires_at, now) ==
    UpsertVerification(DeleteExpired(table, now), nonce, user_id, expires_at)

\* The write transaction of create_telegram_verification.
CreateVerification(table, nonce, user_id, expires_at, now) ==
    UpsertVerification(DeleteOfUser(DeleteExpired(table, now), user_id),
                       nonce, user_id, expires_at)

\* An UPDATE of attempt_count that is lost.
UpdateAttemptCountLost(table, nonce, next_attempt) == table

\* UPDATE telegram_verifications SET attempt_count = ? WHERE nonce = ?
UpdateAttemptCount(table, nonce, next_attempt) ==
    IF nonce \in DOMAIN table
    THEN [table EXCEPT ![nonce].attempt_count = next_attempt]
    ELSE table


\* ------------------------------------------------ POST /register (main.py)
\* _require_key, the registration gate, add_user and the normalisation of
\* the optional telegram_id.  is_user and add_user are merged into one step:
\* users are never deleted and add_user is INSERT OR IGNORE, so no step of
\* another handler between the two changes what either does.
RegisterBegin(p, user_id, raw, api_key) ==
    LET h == [Idle EXCEPT !.op = "register", !.user_id = user_id]
        t == NormalizeTelegramId(raw)
    IN  /\ handler[p].pc = "idle"
        /\ IF ~RequireKey(api_key)
           THEN Respond(p, h, 401, "unauthorized") /\ UNCHANGED hub_users
           ELSE IF ~ALLOW_NEW_USERS /\ ~IsUser(user_id)
           THEN Respond(p, h, 403, "registration_closed") /\ UNCHANGED hub_users
           ELSE /\ hub_users' = AddUser(hub_users, user_id)
                /\ IF raw = <<>> THEN Respond(p, h, 200, "ok")
                   ELSE IF ~t.ok THEN Respond(p, h, 400, "invalid_telegram_id")
                   ELSE Goto(p, [h EXCEPT !.telegram_id = t.value], "set_select")
        /\ UNCHANGED <<clock, config, rows, queue, oauth, naver, telegram_verifications, issued, history>>

\* ------------------------------------------- HubStore.set_telegram_id
\* An ownership check that stores the handle before it raises.
SetTelegramSelectWrites(p) ==
    LET h == handler[p]
    IN  /\ h.pc = "set_select"
        /\ IF OtherOwnerExists(hub_users, h.user_id, h.telegram_id)
           THEN /\ hub_users' = [hub_users EXCEPT ![h.user_id].telegram_id = h.telegram_id]
                /\ Respond(p, h, 409, "telegram_id_already_linked")
           ELSE Goto(p, h, "set_update") /\ UNCHANGED hub_users
        /\ UNCHANGED <<clock, config, rows, queue, oauth, naver, telegram_verifications,
                       issued, history>>

\* The ownership check.  A row found raises ValueError, which register and
\* complete_telegram_verification turn into 409.
SetTelegramSelect(p) ==
    LET h == handler[p]
    IN  /\ h.pc = "set_select"
        /\ IF OtherOwnerExists(hub_users, h.user_id, h.telegram_id)
           THEN Respond(p, h, 409, "telegram_id_already_linked")
           ELSE Goto(p, h, "set_update")
        /\ UNCHANGED <<clock, config, rows, queue, oauth, naver, hub_users, telegram_verifications, issued,
                       history>>

\* The UPDATE and commit.  The unique index rejects a handle another user
\* holds by now: sqlite3.IntegrityError, which no caller catches (HTTP 500).
SetTelegramUpdate(p) ==
    LET h == handler[p]
    IN  /\ h.pc = "set_update"
        /\ IF ~UniqueIndexAccepts(hub_users, h.user_id, h.telegram_id)
           THEN Respond(p, h, 500, "IntegrityError") /\ UNCHANGED hub_users
           ELSE /\ hub_users' = UpdateTelegramId(hub_users, h.user_id, h.telegram_id)
                /\ Respond(p, h, 200, "ok")
        /\ UNCHANGED <<clock, config, rows, queue, oauth, naver, telegram_verifications, issued, history>>

\* --------------------------------------------------- PATCH /profile (main.py)
\* An update_profile that stores the normalized handle.
UpdateProfileSets(p, raw, auth) ==
    LET v == VerifyToken(auth, clock)
        t == NormalizeTelegramId(raw)
        h == [Idle EXCEPT !.op = "update_profile", !.user_id = v.sub,
                          !.authorization = auth, !.telegram_id = t.value]
    IN  /\ handler[p].pc = "idle"
        /\ IF ~v.ok
           THEN Respond(p, h, v.status, v.detail) /\ UNCHANGED hub_users
           ELSE IF v.sub = ""
           THEN Respond(p, h, 401, "login_required") /\ UNCHANGED hub_users
           ELSE IF ~IsUser(v.sub)
           THEN Respond(p, h, 403, "not_registered") /\ UNCHANGED hub_users
           ELSE IF ~t.ok
           THEN Respond(p, h, 400, "invalid_telegram_id") /\ UNCHANGED hub_users
           ELSE /\ hub_users' = UpdateTelegramId(hub_users, v.sub, t.value)
                /\ Respond(p, h, 200, "ok")
        /\ UNCHANGED <<clock, config, rows, queue, oauth, naver, telegram_verifications,
                       issued, history>>

\* update_profile: _verify_token, is_user, _normalize_telegram_id, and then
\* always 400 telegram_verification_required; the store is not written.
UpdateProfile(p, raw, auth) ==
    LET v == VerifyToken(auth, clock)
        t == NormalizeTelegramId(raw)
        h == [Idle EXCEPT !.op = "update_profile", !.user_id = v.sub,
                          !.authorization = auth, !.telegram_id = t.value]
    IN  /\ handler[p].pc = "idle"
        /\ IF ~v.ok
           THEN Respond(p, h, v.status, v.detail)
           ELSE IF v.sub = ""
           THEN Respond(p, h, 401, "login_required")
           ELSE IF ~IsUser(v.sub)
           THEN Respond(p, h, 403, "not_registered")
           ELSE IF ~t.ok
           THEN Respond(p, h, 400, "invalid_telegram_id")
           ELSE Respond(p, h, 400, "telegram_verification_required")
        /\ UNCHANGED <<clock, config, rows, queue, oauth, naver, hub_users,
                       telegram_verifications, issued, history>>

\* ------------------------------- POST /profile/telegram/challenge (main.py)
\* A create_telegram_challenge without the is_user check.
CreateBeginAnyUser(p, auth) ==
    LET v == VerifyToken(auth, clock)
        h == [Idle EXCEPT !.op = "challenge", !.user_id = v.sub,
                          !.authorization = auth]
    IN  /\ handler[p].pc = "idle"
        /\ IF ~v.ok
           THEN Respond(p, h, v.status, v.detail) /\ UNCHANGED issued
           ELSE IF v.sub = ""
           THEN Respond(p, h, 401, "login_required") /\ UNCHANGED issued
           ELSE /\ issued < MaxNonces
                /\ issued' = issued + 1
                /\ Goto(p, [h EXCEPT !.nonce = issued + 1, !.now = clock,
                                     !.expires_at = clock + TELEGRAM_VERIFY_TTL_SECONDS],
                        "create_tx")
        /\ UNCHANGED <<clock, config, rows, queue, oauth, naver, hub_users, telegram_verifications, history>>

\* _verify_token, is_user, the fresh nonce, expires_at = time.time() + ttl
\* and the store's own now = time.time().
CreateBegin(p, auth) ==
    LET v == VerifyToken(auth, clock)
        h == [Idle EXCEPT !.op = "challenge", !.user_id = v.sub,
                          !.authorization = auth]
    IN  /\ handler[p].pc = "idle"
        /\ IF ~v.ok
           THEN Respond(p, h, v.status, v.detail) /\ UNCHANGED issued
           ELSE IF v.sub = ""
           THEN Respond(p, h, 401, "login_required") /\ UNCHANGED issued
           ELSE IF ~IsUser(v.sub)
           THEN Respond(p, h, 403, "not_registered") /\ UNCHANGED issued
           ELSE /\ issued < MaxNonces
                /\ issued' = issued + 1
                /\ Goto(p, [h EXCEPT !.nonce = issued + 1, !.now = clock,
                                     !.expires_at = clock + TELEGRAM_VERIFY_TTL_SECONDS],
                        "create_tx")
        /\ UNCHANGED <<clock, config, rows, queue, oauth, naver, hub_users, telegram_verifications, history>>

\* HubStore.create_telegram_verification: one write transaction.
CreateTx(p) ==
    LET h == handler[p]
    IN  /\ h.pc = "create_tx"
        /\ telegram_verifications' =
               CreateVerification(telegram_verifications, h.nonce, h.user_id,
                                  h.expires_at, h.now)
        /\ Respond(p, h, 200, "ok")
        /\ UNCHANGED <<clock, config, rows, queue, oauth, naver, hub_users, issued, history>>

\* --------------------------------- POST /telegram/verify/complete (main.py)
\* _require_key, the nonce check (nonce 0 is the empty string) and
\* _normalize_telegram_numeric_id; then the store call reads now = time.time().
CompleteBegin(p, nonce, raw, api_key) ==
    LET t == NormalizeTelegramNumericId(raw)
        h == [Idle EXCEPT !.op = "complete", !.nonce = nonce, !.now = clock]
    IN  /\ handler[p].pc = "idle"
        /\ IF ~RequireKey(api_key) THEN Respond(p, h, 401, "unauthorized")
           ELSE IF nonce = 0 THEN Respond(p, h, 400, "invalid_nonce")
           ELSE IF ~t.ok THEN Goto(p, h, "fail_select")
           ELSE Goto(p, [h EXCEPT !.telegram_id = t.value], "consume_select")
        /\ UNCHANGED <<clock, config, rows, queue, oauth, naver, hub_users, telegram_verifications, issued,
                       history>>

\* fail_telegram_verification: the SELECT.
FailSelect(p) ==
    LET h == handler[p]
        row == SelectVerification(telegram_verifications, h.nonce)
    IN  /\ h.pc = "fail_select"
        /\ IF ~row.present
           THEN Respond(p, [h EXCEPT !.failed = "invalid"], 400,
                        "invalid_telegram_user_id")
           ELSE Goto(p, [h EXCEPT !.row = row], "fail_write")
        /\ UNCHANGED <<clock, config, rows, queue, oauth, naver, hub_users, telegram_verifications, issued,
                       history>>

\* fail_telegram_verification comparing next_attempt > max_attempts.
FailStatusOffByOne(row, now, max) ==
    IF row.expires_at < now THEN "expired"
    ELSE IF row.attempt_count + 1 > max THEN "max_attempts"
    ELSE "failed"

\* fail_telegram_verification counting the attempt before it looks at the
\* expiry.
FailStatusAttemptsFirst(row, now, max) ==
    IF row.attempt_count + 1 >= max THEN "max_attempts"
    ELSE IF row.expires_at < now THEN "expired"
    ELSE "failed"

\* fail_telegram_verification without its max_attempts branch.
FailStatusNeverMax(row, now, max) ==
    IF row.expires_at < now THEN "expired" ELSE "failed"

\* The status fail_telegram_verification returns for the row it read.
FailStatus(row, now, max) ==
    IF row.expires_at < now THEN "expired"
    ELSE IF row.attempt_count + 1 >= max THEN "max_attempts"
    ELSE "failed"

\* fail_telegram_verification: the DELETE or UPDATE, decided on the row read,
\* and the handler's mapping of the status.
FailWrite(p) ==
    LET h == handler[p]
        st == FailStatus(h.row, h.now, max_attempts)
        g == [h EXCEPT !.failed = st]
    IN  /\ h.pc = "fail_write"
        /\ telegram_verifications' =
               IF st = "failed"
               THEN UpdateAttemptCount(telegram_verifications, h.nonce,
                                       h.row.attempt_count + 1)
               ELSE DeleteVerification(telegram_verifications, h.nonce)
        /\ fail_calls' =
               IF st = "expired" THEN fail_calls
               ELSE [fail_calls EXCEPT ![h.nonce] = @ + 1]
        /\ IF st = "max_attempts" THEN Respond(p, g, 400, "max_attempts_reached")
           ELSE Respond(p, g, 400, "invalid_telegram_user_id")
        /\ UNCHANGED <<clock, config, rows, queue, oauth, naver, hub_users, issued, consumed_ok>>

\* consume_telegram_verification: the SELECT.
ConsumeSelect(p) ==
    LET h == handler[p]
        row == SelectVerification(telegram_verifications, h.nonce)
    IN  /\ h.pc = "consume_select"
        /\ IF ~row.present
           THEN Respond(p, [h EXCEPT !.challenge = "invalid"], 400, "invalid_nonce")
           ELSE Goto(p, [h EXCEPT !.row = row], "consume_delete")
        /\ UNCHANGED <<clock, config, rows, queue, oauth, naver, hub_users, telegram_verifications, issued,
                       history>>

\* consume_telegram_verification without its expiry check.
ConsumeStatusNoExpiry(row, now, max, rowcount) ==
    IF row.used_at # NULL THEN "invalid"
    ELSE IF row.attempt_count >= max THEN "max_attempts"
    ELSE IF rowcount # 1 THEN "invalid"
    ELSE "ok"

\* The status consume_telegram_verification returns for the row it read,
\* given the rowcount of its DELETE.
ConsumeStatus(row, now, max, rowcount) ==
    IF row.used_at # NULL THEN "invalid"
    ELSE IF row.expires_at < now THEN "expired"
    ELSE IF row.attempt_count >= max THEN "max_attempts"
    ELSE IF rowcount # 1 THEN "invalid"
    ELSE "ok"

\* consume_telegram_verification: the DELETE (every branch deletes the nonce),
\* and the handler's mapping of the status.
ConsumeDelete(p) ==
    LET h == handler[p]
        st == ConsumeStatus(h.row, h.now, max_attempts,
                            DeleteRowcount(telegram_verifications, h.nonce))
        g == [h EXCEPT !.challenge = st]
    IN  /\ h.pc = "consume_delete"
        /\ telegram_verifications' =
               DeleteVerification(telegram_verifications, h.nonce)
        /\ consumed_ok' =
               IF st = "ok" THEN [consumed_ok EXCEPT ![h.nonce] = @ + 1]
               ELSE consumed_ok
        /\ IF st = "expired" THEN Respond(p, g, 400, "expired_nonce")
           ELSE IF st = "max_attempts" THEN Respond(p, g, 400, "max_attempts_reached")
           ELSE IF st # "ok" THEN Respond(p, g, 400, "invalid_nonce")
           ELSE Goto(p, [g EXCEPT !.user_id = h.row.user_id, !.row = NoRow,
                                  !.now = 0], "is_user")
        /\ UNCHANGED <<clock, config, rows, queue, oauth, naver, hub_users, issued, fail_calls>>

\* store.is_user(user_id) of complete_telegram_verification.
CompleteIsUser(p) ==
    LET h == handler[p]
    IN  /\ h.pc = "is_user"
        /\ IF ~IsUser(h.user_id) THEN Respond(p, h, 403, "not_registered")
           ELSE Goto(p, h, "set_select")
        /\ UNCHANGED <<clock, config, rows, queue, oauth, naver, hub_users, telegram_verifications, issued,
                       history>>

\* ------------------------------------------- session tokens (main.py)
\* GET /auth/status: _verify_token on the Authorization header.
AuthStatus(p, auth) ==
    LET v == VerifyToken(auth, clock)
        h == [Idle EXCEPT !.op = "auth_status", !.authorization = auth,
                          !.now = clock, !.user_id = v.sub]
    IN  /\ handler[p].pc = "idle"
        /\ IF ~v.ok THEN Respond(p, h, v.status, v.detail)
           ELSE IF v.sub = "" THEN Respond(p, h, 200, "not_authenticated")
           ELSE Respond(p, h, 200, "ok")
        /\ UNCHANGED <<clock, config, rows, queue, oauth, naver, hub_users,
                       telegram_verifications, issued, history>>

\* The token issue of naver_callback for subject sub, on its own.
SessionIssue(sub) ==
    /\ Cardinality(sessions) < MaxSessions
    /\ sessions' = sessions \cup {IssueSession(sub, clock)}
    /\ response' = NoResponse
    /\ UNCHANGED <<clock, config, rows, queue, oauth, naver_identities, naver_accounts, posts,
                   provider, hub_users, telegram_verifications, issued, history,
                   handler>>

\* ------------------------------------------- oauth states (hub_store.py)
\* The (user_id, flow) pairs the handlers save: auth_naver_login saves
\* ("", "login"), naver_link saves (user_id, "link").
SavedPairs ==
    {[user_id |-> "", flow |-> "login"]}
    \cup [user_id : UserIds, flow : {"link"}]

\* INSERT INTO oauth_states (state, user_id, created_at, flow)
InsertOauthState(table, state, user_id, flow) ==
    [s \in DOMAIN table \cup {state} |->
        IF s = state THEN [user_id |-> user_id, flow |-> flow] ELSE table[s]]

\* SELECT user_id, flow FROM oauth_states WHERE state = ?
SelectOauthState(table, state) ==
    IF state \in DOMAIN table
    THEN [present |-> TRUE, user_id |-> table[state].user_id,
          flow |-> table[state].flow]
    ELSE NoRow

\* A DELETE that leaves the state in place.
DeleteOauthStateKeepsRow(table, state) == table

\* DELETE FROM oauth_states WHERE state = ?
DeleteOauthState(table, state) ==
    [s \in DOMAIN table \ {state} |-> table[s]]

\* save_oauth_state, called with a token fresh from secrets.token_urlsafe(16):
\* one INSERT and its commit.
SaveOauthState(p, user_id, flow) ==
    LET state == Cardinality(DOMAIN saved_states) + 1
        h == [Idle EXCEPT !.op = "save_oauth_state", !.state = state,
                          !.user_id = user_id]
    IN  /\ handler[p].pc = "idle"
        /\ state \in OauthStates
        /\ oauth_states' = InsertOauthState(oauth_states, state, user_id, flow)
        /\ saved_states' = InsertOauthState(saved_states, state, user_id, flow)
        /\ Respond(p, h, 0, "saved")
        /\ UNCHANGED <<clock, config, rows, queue, naver, hub_users, telegram_verifications, issued,
                       history, popped>>

\* pop_oauth_state, its SELECT: no row returns None.
PopSelect(p, state) ==
    LET h == [Idle EXCEPT !.op = "pop_oauth_state", !.state = state]
        row == SelectOauthState(oauth_states, state)
    IN  /\ handler[p].pc = "idle"
        /\ IF ~row.present
           THEN Respond(p, h, 0, "None")
           ELSE Goto(p, [h EXCEPT !.row = row], "pop_delete")
        /\ UNCHANGED <<clock, config, rows, queue, oauth, naver, hub_users, telegram_verifications,
                       issued, history>>

\* pop_oauth_state, its DELETE and commit: returns the row it read.
PopDelete(p) ==
    LET h == handler[p]
    IN  /\ h.pc = "pop_delete"
        /\ oauth_states' = DeleteOauthState(oauth_states, h.state)
        /\ popped' = [popped EXCEPT ![h.state] = @ + 1]
        /\ IF h.op = "pop_oauth_state"
           THEN Respond(p, h, 0, "state_info")
           ELSE Goto(p, [h EXCEPT !.user_id = h.row.user_id,
                                  !.flow = h.row.flow], "get_account")
        /\ UNCHANGED <<clock, config, rows, queue, naver, hub_users, telegram_verifications, issued,
                       history, saved_states>>

\* ------------------------------------------- provider accounts (main.py)
\* Subjects the provider's profile endpoint reports.
NaverIds == {"n1"}

\* The user id naver_callback gives a subject it has no mapping for.
NaverUser(naver_id) == "naver:" \o naver_id

\* a or b of Python, on strings.
OrElse(a, b) == IF a # "" THEN a ELSE b

\* The redirect_uri the handlers fall back to: NAVER_REDIRECT_URI or
\* PUBLIC_BASE_URL + "/naver/callback".
DefaultRedirectUri == "http://localhost:8000/naver/callback"

\* NaverToken.expires_at: time.time() + max(0, expires_in - 30).
ExpiresAt(expires_in, now) ==
    now + (IF expires_in - TOKEN_EXPIRY_MARGIN > 0
           THEN expires_in - TOKEN_EXPIRY_MARGIN ELSE 0)

\* What the token endpoint answers to exchange_code and refresh_token: an
\* error status, or a token; refresh_token "" is a missing field, and the
\* lifetimes are one shorter than the margin and one a Tick beyond it.
TokenResponses ==
    {[ok |-> FALSE],
     [ok |-> TRUE, access_token |-> "access-1", refresh_token |-> "refresh-1",
      expires_in |-> 10],
     [ok |-> TRUE, access_token |-> "access-2", refresh_token |-> "",
      expires_in |-> TickSeconds + TOKEN_EXPIRY_MARGIN]}

\* NaverClient.exchange_code on a 2xx answer: a missing refresh_token is "".
ExchangeCode(data) ==
    [present |-> TRUE, access_token |-> data.access_token,
     refresh_token |-> data.refresh_token, expires_in |-> data.expires_in]

\* _require_dashboard_auth: [ok, who, status, detail].
RequireDashboardAuth(auth, api_key, now) ==
    LET v == VerifyToken(auth, now)
    IN  IF HUB_API_KEY # "" /\ api_key = HUB_API_KEY
        THEN [ok |-> TRUE, who |-> "api_key", status |-> 200, detail |-> ""]
        ELSE IF ~v.ok
        THEN [ok |-> FALSE, who |-> "", status |-> v.status, detail |-> v.detail]
        ELSE IF v.sub # ""
        THEN [ok |-> TRUE, who |-> v.sub, status |-> 200, detail |-> ""]
        ELSE IF HUB_API_KEY # ""
        THEN [ok |-> FALSE, who |-> "", status |-> 401, detail |-> "unauthorized"]
        ELSE [ok |-> FALSE, who |-> "", status |-> 401, detail |-> "login_required"]

\* get_naver_account: the row, or NoRow.
GetNaverAccount(table, user_id) ==
    IF user_id \in DOMAIN table
    THEN [table[user_id] EXCEPT !.present = TRUE]
    ELSE NoRow

\* An upsert that writes the row under every user.
UpsertNaverAccountEveryUser(table, user_id, row) ==
    [u \in DOMAIN table \cup {user_id} |-> row]

\* An upsert that keeps the refresh token of the row it finds.
UpsertNaverAccountKeepsRefreshToken(table, user_id, row) ==
    [u \in DOMAIN table \cup {user_id} |->
        IF u # user_id THEN table[u]
        ELSE IF u \in DOMAIN table
        THEN [row EXCEPT !.refresh_token = table[u].refresh_token]
        ELSE row]

\* upsert_naver_account: INSERT ... ON CONFLICT(user_id) DO UPDATE.
UpsertNaverAccount(table, user_id, row) ==
    [u \in DOMAIN table \cup {user_id} |-> IF u = user_id THEN row ELSE table[u]]

\* A row of naver_accounts.
AccountRow(client_id, client_secret, redirect_uri, access_token, refresh_token, token_expires_at) ==
    [present |-> TRUE, client_id |-> client_id, client_secret |-> client_secret,
     redirect_uri |-> redirect_uri, access_token |-> access_token,
     refresh_token |-> refresh_token, token_expires_at |-> token_expires_at]

\* get_user_by_naver_id: the mapped user id, or "" for None.
GetUserByNaverId(table, naver_id) ==
    IF naver_id \in DOMAIN table THEN table[naver_id] ELSE ""

\* A link_naver_identity that replaces the whole table by its row.
LinkNaverIdentityOnly(table, naver_id, user_id) ==
    [n \in {naver_id} |-> user_id]

\* A link_naver_identity whose row is lost.
LinkNaverIdentityLost(table, naver_id, user_id) == table

\* link_naver_identity: INSERT ... ON CONFLICT(naver_id) DO UPDATE.
LinkNaverIdentity(table, naver_id, user_id) ==
    [n \in DOMAIN table \cup {naver_id} |-> IF n = naver_id THEN user_id ELSE table[n]]

\* GET /auth/naver/login: the state is saved before the client info is
\* looked at.
AuthNaverLogin(p) ==
    LET state == Cardinality(DOMAIN saved_states) + 1
        h == [Idle EXCEPT !.op = "login", !.state = state, !.flow = "login"]
    IN  /\ handler[p].pc = "idle"
        /\ state \in OauthStates
        /\ oauth_states' = InsertOauthState(oauth_states, state, "", "login")
        /\ saved_states' = InsertOauthState(saved_states, state, "", "login")
        /\ IF NAVER_CLIENT_ID = "" \/ NAVER_CLIENT_SECRET = ""
           THEN Respond(p, h, 400, "missing_client_info")
           ELSE Respond(p, h, 307, "redirect")
        /\ UNCHANGED <<clock, config, rows, queue, naver, hub_users, telegram_verifications,
                       issued, history, popped>>

\* POST /naver/set: is_user and the upsert that stores the client info with
\* empty tokens.  is_user is read at the upsert's instant: users are never
\* removed.
NaverSet(p, user_id, client_id, client_secret, auth, api_key) ==
    LET a == RequireDashboardAuth(auth, api_key, clock)
        h == [Idle EXCEPT !.op = "naver_set", !.user_id = user_id]
        id == OrElse(client_id, NAVER_CLIENT_ID)
        secret == OrElse(client_secret, NAVER_CLIENT_SECRET)
    IN  /\ handler[p].pc = "idle"
        /\ IF ~a.ok
           THEN Respond(p, h, a.status, a.detail) /\ UNCHANGED naver_accounts
           ELSE IF ~IsUser(user_id)
           THEN Respond(p, h, 403, "not_registered") /\ UNCHANGED naver_accounts
           ELSE IF id = "" \/ secret = ""
           THEN Respond(p, h, 400, "missing_client_info") /\ UNCHANGED naver_accounts
           ELSE /\ naver_accounts' =
                       UpsertNaverAccount(naver_accounts, user_id,
                           AccountRow(id, secret, DefaultRedirectUri, "", "", 0))
                /\ Respond(p, h, 200, "ok")
        /\ UNCHANGED <<clock, config, rows, queue, oauth, naver_identities, posts, sessions,
                       provider, hub_users, telegram_verifications, issued,
                       history>>

\* GET /naver/link: is_user, get_naver_account and save_oauth_state.  The
\* two reads are taken at the INSERT's instant: users and accounts are never
\* removed.
NaverLink(p, user_id, auth, api_key) ==
    LET a == RequireDashboardAuth(auth, api_key, clock)
        state == Cardinality(DOMAIN saved_states) + 1
        h == [Idle EXCEPT !.op = "naver_link", !.user_id = user_id,
                          !.flow = "link"]
    IN  /\ handler[p].pc = "idle"
        /\ IF ~a.ok
           THEN Respond(p, h, a.status, a.detail)
                /\ UNCHANGED <<oauth_states, saved_states>>
           ELSE IF ~IsUser(user_id)
           THEN Respond(p, h, 403, "not_registered")
                /\ UNCHANGED <<oauth_states, saved_states>>
           ELSE IF ~GetNaverAccount(naver_accounts, user_id).present
           THEN Respond(p, h, 400, "missing_client_info")
                /\ UNCHANGED <<oauth_states, saved_states>>
           ELSE /\ state \in OauthStates
                /\ oauth_states' = InsertOauthState(oauth_states, state, user_id, "link")
                /\ saved_states' = InsertOauthState(saved_states, state, user_id, "link")
                /\ Respond(p, [h EXCEPT !.state = state], 200, "ok")
        /\ UNCHANGED <<clock, config, rows, queue, naver, hub_users, telegram_verifications,
                       issued, history, popped>>

\* ------------------------------------------- GET /naver/callback (main.py)
\* The parameter check and the SELECT of pop_oauth_state; code "" and
\* state 0 are the empty strings.
CallbackBegin(p, code, state) ==
    LET h == [Idle EXCEPT !.op = "callback", !.state = state]
        row == SelectOauthState(oauth_states, state)
    IN  /\ handler[p].pc = "idle"
        /\ IF code = "" \/ state = 0
           THEN Respond(p, h, 400, "missing_code_or_state")
           ELSE IF ~row.present
           THEN Respond(p, h, 400, "invalid_state")
           ELSE Goto(p, [h EXCEPT !.row = row], "pop_delete")
        /\ UNCHANGED <<clock, config, rows, queue, oauth, naver, hub_users, telegram_verifications,
                       issued, history>>

\* get_naver_account of the state's user (none for a login state), and the
\* client info the exchange will use.
CallbackGetAccount(p) ==
    LET h == handler[p]
        account == IF h.user_id # "" THEN GetNaverAccount(naver_accounts, h.user_id)
                   ELSE NoRow
        fallback == AccountRow(NAVER_CLIENT_ID, NAVER_CLIENT_SECRET,
                               DefaultRedirectUri, "", "", 0)
    IN  /\ h.pc = "get_account"
        /\ IF account.present
           THEN Goto(p, [h EXCEPT !.account = account], "exchange")
           ELSE IF NAVER_CLIENT_ID = "" \/ NAVER_CLIENT_SECRET = ""
           THEN Respond(p, h, 400, "missing_client_info")
           ELSE Goto(p, [h EXCEPT !.account = fallback], "exchange")
        /\ UNCHANGED <<clock, config, rows, queue, oauth, naver, hub_users, telegram_verifications,
                       issued, history>>

\* await naver_client.exchange_code: raise_for_status turns an error answer
\* into an unhandled exception (500).
CallbackExchange(p, data) ==
    LET h == handler[p]
        g == [h EXCEPT !.token = ExchangeCode(data)]
    IN  /\ h.pc = "exchange"
        /\ IF ~data.ok
           THEN Respond(p, h, 500, "Internal Server Error")
           ELSE IF h.flow = "login"
           THEN Goto(p, g, "profile")
           ELSE Goto(p, g, "upsert")
        /\ UNCHANGED <<clock, config, rows, queue, oauth, naver, hub_users, telegram_verifications,
                       issued, history>>

\* await naver_client.get_profile and the extraction of response.id;
\* naver_id "" is a profile without a usable id.
CallbackProfile(p, naver_id) ==
    LET h == handler[p]
    IN  /\ h.pc = "profile"
        /\ IF naver_id = ""
           THEN Respond(p, h, 400, "missing_naver_id")
           ELSE Goto(p, [h EXCEPT !.naver_id = naver_id], "get_mapping")
        /\ UNCHANGED <<clock, config, rows, queue, oauth, naver, hub_users, telegram_verifications,
                       issued, history>>

\* get_user_by_naver_id and user_id = mapped_user_id or f"naver:{naver_id}".
CallbackGetMapping(p) ==
    LET h == handler[p]
        mapped_user_id == GetUserByNaverId(naver_identities, h.naver_id)
    IN  /\ h.pc = "get_mapping"
        /\ Goto(p, [h EXCEPT !.mapped_user_id = mapped_user_id,
                             !.user_id = OrElse(mapped_user_id, NaverUser(h.naver_id))],
                "add_user")
        /\ UNCHANGED <<clock, config, rows, queue, oauth, naver, hub_users, telegram_verifications,
                       issued, history>>

\* A gate that lets every login through.
RegistrationGateOpen(allow, known) == TRUE

\* The registration gate of naver_callback: a known user passes, an unknown
\* one only while ALLOW_NEW_USERS is set.
RegistrationGate(allow, known) == known \/ allow

\* is_user, the registration gate and add_user, merged as in register.
CallbackAddUser(p) ==
    LET h == handler[p]
    IN  /\ h.pc = "add_user"
        /\ IF ~RegistrationGate(ALLOW_NEW_USERS, IsUser(h.user_id))
           THEN Respond(p, h, 403, "registration_closed") /\ UNCHANGED hub_users
           ELSE /\ hub_users' = AddUser(hub_users, h.user_id)
                /\ Goto(p, h, "link_identity")
        /\ UNCHANGED <<clock, config, rows, queue, oauth, naver, telegram_verifications, issued,
                       history>>

\* link_naver_identity and its commit.
CallbackLinkIdentity(p) ==
    LET h == handler[p]
    IN  /\ h.pc = "link_identity"
        /\ naver_identities' = LinkNaverIdentity(naver_identities, h.naver_id, h.user_id)
        /\ Goto(p, h, "upsert")
        /\ UNCHANGED <<clock, config, rows, queue, oauth, naver_accounts, posts, sessions, provider,
                       hub_users, telegram_verifications, issued, history>>

\* upsert_naver_account with token.expires_at() read at this instant, then
\* the session token (now = int(time.time())) and the answer.
CallbackUpsert(p) ==
    LET h == handler[p]
        row == AccountRow(h.account.client_id, h.account.client_secret,
                          h.account.redirect_uri, h.token.access_token,
                          h.token.refresh_token,
                          ExpiresAt(h.token.expires_in, clock))
        session == IssueSession(h.user_id, clock)
    IN  /\ h.pc = "upsert"
        /\ naver_accounts' = UpsertNaverAccount(naver_accounts, h.user_id, row)
        /\ IF JWT_SECRET = ""
           THEN Respond(p, h, 500, "jwt_not_configured")
           ELSE Respond(p, [h EXCEPT !.session = session], 200, "ok")
        /\ UNCHANGED <<clock, config, rows, queue, oauth, naver_identities, posts, sessions,
                       provider, hub_users, telegram_verifications, issued, history>>

\* The service is redeployed with another ALLOW_NEW_USERS while no request
\* is in progress; the database file stays.
Restart(allow) ==
    /\ \A p \in Procs : handler[p].pc = "idle"
    /\ ALLOW_NEW_USERS' = allow
    /\ allow # ALLOW_NEW_USERS
    /\ response' = NoResponse
    /\ UNCHANGED <<clock, rows, queue, HUB_API_KEY, max_attempts, JWT_TTL_SECONDS, NAVER_CLIENT_ID,
                   NAVER_CLIENT_SECRET, oauth, naver, hub_users,
                   telegram_verifications, issued, history, handler>>

\* ------------------------------------------------- posts (hub_store.py)
PostIds == 1..MaxPosts

\* A create_post whose row is lost.
CreatePostDropped(table, post_id, user_id, title, content, now) == table

\* create_post: INSERT INTO posts with created_at = time.time().
CreatePost(table, post_id, user_id, title, content, now) ==
    table @@ (post_id :> [user_id |-> user_id, title |-> title,
                          content |-> content, created_at |-> now])

\* get_post: the row, or NoRow.
GetPost(table, post_id) ==
    IF post_id \in DOMAIN table
    THEN [present |-> TRUE, post_id |-> post_id, user_id |-> table[post_id].user_id,
          title |-> table[post_id].title, content |-> table[post_id].content,
          created_at |-> table[post_id].created_at]
    ELSE NoRow

\* A lookup that orders by created_at ascending.
OldestPosts(table, user_id) ==
    {GetPost(table, i) : i \in
        {i \in DOMAIN table :
            /\ table[i].user_id = user_id
            /\ \A j \in DOMAIN table :
                   table[j].user_id = user_id => table[j].created_at >= table[i].created_at}}

\* get_latest_post: ORDER BY created_at DESC LIMIT 1 returns one of the
\* user's rows with the greatest created_at; the set of rows it may return
\* (empty when the user has no post).
LatestPosts(table, user_id) ==
    {GetPost(table, i) : i \in
        {i \in DOMAIN table :
            /\ table[i].user_id = user_id
            /\ \A j \in DOMAIN table :
                   table[j].user_id = user_id => table[j].created_at <= table[i].created_at}}

\* POST /posts: _require_dashboard_auth and create_post under a fresh id.
SavePost(p, user_id, title, content, auth, api_key) ==
    LET a == RequireDashboardAuth(auth, api_key, clock)
        post_id == Cardinality(DOMAIN posts) + 1
        h == [Idle EXCEPT !.op = "save_post", !.user_id = user_id,
                          !.authorization = auth, !.api_key = api_key]
    IN  /\ handler[p].pc = "idle"
        /\ IF ~a.ok
           THEN Respond(p, h, a.status, a.detail) /\ UNCHANGED posts
           ELSE /\ post_id \in PostIds
                /\ posts' = CreatePost(posts, post_id, user_id, title, content, clock)
                /\ Respond(p, [h EXCEPT !.post_id = post_id], 200, "ok")
        /\ UNCHANGED <<clock, config, rows, queue, oauth, naver_identities, naver_accounts,
                       sessions, provider, hub_users, telegram_verifications,
                       issued, history>>

\* ---------------------------------------------------- POST /internal/posts
\* The credentials of the collecting service, as the tests configure them.
HUB_SERVICE_TOKEN == "svc-token"
HUB_INTERNAL_API_KEY == "internal-key"

\* An Authorization header carrying an opaque token as bearer.
ServiceBearer(token) ==
    [bearer |-> TRUE, form |-> "opaque", sub |-> "", iat |-> 0, exp |-> -1,
     secret |-> token]

\* The service check of /internal/posts: the service token as bearer, or
\* the internal API key.
ServiceAuth(auth, internal_key) ==
    \/ auth.bearer /\ auth.form = "opaque" /\ auth.secret = HUB_SERVICE_TOKEN
    \/ internal_key = HUB_INTERNAL_API_KEY

\* POST /internal/posts: the service check and create_post under a fresh id.
InternalSavePost(p, user_id, title, content, auth, internal_key) ==
    LET post_id == Cardinality(DOMAIN posts) + 1
        h == [Idle EXCEPT !.op = "internal_post", !.user_id = user_id,
                          !.title = title, !.authorization = auth,
                          !.api_key = internal_key]
    IN  /\ handler[p].pc = "idle"
        /\ IF ~ServiceAuth(auth, internal_key)
           THEN Respond(p, h, 401, "service_auth_required") /\ UNCHANGED posts
           ELSE /\ post_id \in PostIds
                /\ posts' = CreatePost(posts, post_id, user_id, title, content, clock)
                /\ Respond(p, [h EXCEPT !.post_id = post_id], 200, "ok")
        /\ UNCHANGED <<clock, config, rows, queue, oauth, naver_identities, naver_accounts,
                       sessions, provider, hub_users, telegram_verifications,
                       issued, history>>

\* ------------------------------------------ POST /naver/publish (main.py)
\* A check that takes every stored account for a linked one.
LinkedAlways(account) == TRUE

\* The account test of naver_publish: a row with a non-empty access token.
Linked(account) == account.present /\ account.access_token # ""

\* _require_dashboard_auth and get_naver_account; post_id 0 and title ""
\* are the absent fields of the request.
PublishBegin(p, user_id, post_id, title, auth, api_key) ==
    LET a == RequireDashboardAuth(auth, api_key, clock)
        account == GetNaverAccount(naver_accounts, user_id)
        h == [Idle EXCEPT !.op = "publish", !.user_id = user_id,
                          !.post_id = post_id, !.title = title]
    IN  /\ handler[p].pc = "idle"
        /\ IF ~a.ok
           THEN Respond(p, h, a.status, a.detail)
           ELSE IF ~Linked(account)
           THEN Respond(p, h, 400, "naver_not_linked")
           ELSE Goto(p, [h EXCEPT !.account = account], "select_post")
        /\ UNCHANGED <<clock, config, rows, queue, oauth, naver, hub_users, telegram_verifications,
                       issued, history>>

\* The rest of naver_publish's content selection once the post is read:
\* [status, detail, title, post]; status 200 goes on to the token.
SelectContent(h, post) ==
    LET title == IF h.title # "" \/ ~post.present THEN h.title ELSE post.title
        content == IF post.present THEN post.content ELSE ""
        fail(status, detail) ==
            [status |-> status, detail |-> detail, title |-> h.title, post |-> post]
    IN  IF h.post_id # 0 /\ ~post.present THEN fail(404, "not_found")
        ELSE IF h.post_id # 0 /\ post.user_id # h.user_id THEN fail(403, "forbidden")
        ELSE IF h.title = "" /\ ~post.present THEN fail(400, "no_post")
        ELSE IF content = "" THEN fail(400, "no_post")
        ELSE [status |-> 200, detail |-> "", title |-> title, post |-> post]

\* get_post for a given post_id, get_latest_post otherwise, and the checks
\* on what was found.
PublishSelectPost(p) ==
    LET h == handler[p]
        found == IF h.post_id # 0 THEN {GetPost(posts, h.post_id)}
                 ELSE IF LatestPosts(posts, h.user_id) = {} THEN {NoRow}
                 ELSE LatestPosts(posts, h.user_id)
    IN  /\ h.pc = "select_post"
        /\ \E post \in found :
              LET r == SelectContent(h, post)
                  g == [h EXCEPT !.post = r.post, !.title = r.title]
              IN  IF r.status # 200
                  THEN Respond(p, g, r.status, r.detail)
                  ELSE Goto(p, g, "token")
        /\ UNCHANGED <<clock, config, rows, queue, oauth, naver, hub_users, telegram_verifications,
                       issued, history>>

\* A test that never finds the token expired.
TokenExpiredNever(account, now) == FALSE

\* A test that finds every token expired.
TokenExpiredAlways(account, now) == TRUE

\* account["token_expires_at"] <= now
TokenExpired(account, now) == account.token_expires_at <= now

\* A refresh_token that keeps only what the provider returned.
RefreshTokenDropsPrevious(data, refresh_token) ==
    [present |-> TRUE, access_token |-> data.access_token,
     refresh_token |-> data.refresh_token, expires_in |-> data.expires_in]

\* NaverClient.refresh_token on a 2xx answer: a missing refresh_token keeps
\* the one sent.
RefreshToken(data, refresh_token) ==
    [present |-> TRUE, access_token |-> data.access_token,
     refresh_token |-> OrElse(data.refresh_token, refresh_token),
     expires_in |-> data.expires_in]

\* now = time.time() finds the stored token expired: await refresh_token.
\* An error answer is None, and the handler answers refresh_failed.
PublishRefresh(p, data) ==
    LET h == [handler[p] EXCEPT !.now = clock, !.refreshes = @ + 1]
    IN  /\ h.pc = "token"
        /\ TokenExpired(h.account, clock)
        /\ refresh_calls < MaxCalls
        /\ refresh_calls' = refresh_calls + 1
        /\ IF ~data.ok
           THEN Respond(p, h, 400, "refresh_failed")
           ELSE Goto(p, [h EXCEPT !.token = RefreshToken(data, h.account.refresh_token)],
                     "upsert_refreshed")
        /\ UNCHANGED <<clock, config, rows, queue, oauth, naver_identities, naver_accounts, posts,
                       sessions, write_calls, hub_users, telegram_verifications,
                       issued, history>>

\* now = time.time() finds the stored token live: it is used as it is.
PublishUseStored(p) ==
    LET h == [handler[p] EXCEPT !.now = clock]
    IN  /\ h.pc = "token"
        /\ ~TokenExpired(h.account, clock)
        /\ Goto(p, [h EXCEPT !.token = [present |-> TRUE,
                                        access_token |-> h.account.access_token,
                                        refresh_token |-> h.account.refresh_token,
                                        expires_in |-> 0]], "write")
        /\ UNCHANGED <<clock, config, rows, queue, oauth, naver, hub_users, telegram_verifications,
                       issued, history>>

\* upsert_naver_account with the refreshed tokens and refreshed.expires_at().
PublishUpsert(p) ==
    LET h == handler[p]
        row == AccountRow(h.account.client_id, h.account.client_secret,
                          h.account.redirect_uri, h.token.access_token,
                          h.token.refresh_token,
                          ExpiresAt(h.token.expires_in, clock))
    IN  /\ h.pc = "upsert_refreshed"
        /\ naver_accounts' = UpsertNaverAccount(naver_accounts, h.user_id, row)
        /\ Goto(p, h, "write")
        /\ UNCHANGED <<clock, config, rows, queue, oauth, naver_identities, posts, sessions,
                       provider, hub_users, telegram_verifications, issued, history>>

\* await naver_client.write_post with the title and content selected;
\* raise_for_status turns an error answer into an unhandled exception (500).
PublishWrite(p, ok) ==
    LET h == handler[p]
    IN  /\ h.pc = "write"
        /\ write_calls < MaxCalls
        /\ write_calls' = write_calls + 1
        /\ IF ok THEN Respond(p, h, 200, "ok")
           ELSE Respond(p, h, 500, "Internal Server Error")
        /\ UNCHANGED <<clock, config, rows, queue, oauth, naver_identities, naver_accounts, posts,
                       sessions, refresh_calls, hub_users, telegram_verifications,
                       issued, history>>

\* ---------------------------------------------------- jobs (hub_store.py)
\* create_job: INSERT INTO jobs with status queued and created_at = now.
InsertJob(table, job_id, user_id, now) ==
    table @@ (job_id :> [user_id |-> user_id, status |-> "queued", created_at |-> now])

\* fetch_next_job's SELECT ... WHERE status = 'queued' ORDER BY created_at
\* ASC LIMIT 1: the job ids it may return (empty when nothing is queued).
NextQueued(table) ==
    {j \in DOMAIN table :
        /\ table[j].status = "queued"
        /\ \A k \in DOMAIN table :
               table[k].status = "queued" => table[j].created_at <= table[k].created_at}

\* UPDATE jobs SET status = ? WHERE job_id = ?
UpdateJobStatus(table, job_id, status) ==
    [j \in DOMAIN table |->
        IF j = job_id THEN [table[j] EXCEPT !.status = status] ELSE table[j]]

\* POST /jobs: _require_key, is_user and create_job under a fresh id.
CreateJob(p, user_id, api_key) ==
    LET job_id == Cardinality(DOMAIN jobs) + 1
        h == [Idle EXCEPT !.op = "create_job", !.user_id = user_id]
    IN  /\ handler[p].pc = "idle"
        /\ IF ~RequireKey(api_key)
           THEN Respond(p, h, 401, "unauthorized") /\ UNCHANGED jobs
           ELSE IF ~IsUser(user_id)
           THEN Respond(p, h, 403, "not_registered") /\ UNCHANGED jobs
           ELSE /\ job_id \in JobIds
                /\ jobs' = InsertJob(jobs, job_id, user_id, clock)
                /\ Respond(p, [h EXCEPT !.job_id = job_id], 200, "ok")
        /\ UNCHANGED <<clock, config, rows, fetched, oauth, naver, hub_users,
                       telegram_verifications, issued, history>>

\* GET /jobs/next: _require_key and the SELECT of fetch_next_job; job_id 0
\* in the answer is "job": None.
NextJobSelect(p, api_key) ==
    LET h == [Idle EXCEPT !.op = "next_job"]
    IN  /\ handler[p].pc = "idle"
        /\ IF ~RequireKey(api_key)
           THEN Respond(p, h, 401, "unauthorized")
           ELSE IF NextQueued(jobs) = {}
           THEN Respond(p, h, 200, "ok")
           ELSE \E job_id \in NextQueued(jobs) :
                   Goto(p, [h EXCEPT !.job_id = job_id,
                                     !.user_id = jobs[job_id].user_id], "job_update")
        /\ UNCHANGED <<clock, config, rows, queue, oauth, naver, hub_users,
                       telegram_verifications, issued, history>>

\* fetch_next_job's UPDATE to processing and commit; the row read by the
\* SELECT is returned.
NextJobUpdate(p) ==
    LET h == handler[p]
    IN  /\ h.pc = "job_update"
        /\ jobs' = UpdateJobStatus(jobs, h.job_id, "processing")
        /\ fetched' = [fetched EXCEPT ![h.job_id] = @ + 1]
        /\ Respond(p, h, 200, "ok")
        /\ UNCHANGED <<clock, config, rows, oauth, naver, hub_users, telegram_verifications,
                       issued, history>>

\* POST /jobs/{job_id}/result: _require_key and complete_job.
CompleteJob(p, job_id, api_key) ==
    LET h == [Idle EXCEPT !.op = "complete_job", !.job_id = job_id]
    IN  /\ handler[p].pc = "idle"
        /\ IF ~RequireKey(api_key)
           THEN Respond(p, h, 401, "unauthorized") /\ UNCHANGED jobs
           ELSE /\ jobs' = UpdateJobStatus(jobs, job_id, "done")
                /\ Respond(p, h, 200, "ok")
        /\ UNCHANGED <<clock, config, rows, fetched, oauth, naver, hub_users,
                       telegram_verifications, issued, history>>

\* ------------------------------------ upserts, row by row (hub_store.py)
\* An INSERT that adds its row whatever the table holds.
InsertNaverAccountRows(table, row) == table \cup {row}

\* upsert_naver_account on the rows of the table: INSERT, or ON
\* CONFLICT(user_id) DO UPDATE SET every other column from the new row.
UpsertNaverAccountRows(table, row) ==
    IF \E r \in table : r.user_id = row.user_id
    THEN {IF r.user_id = row.user_id THEN row ELSE r : r \in table}
    ELSE table \cup {row}

\* An INSERT that adds its row whatever the table holds.
InsertNaverIdentityRows(table, row) == table \cup {row}

\* link_naver_identity on the rows of the table: INSERT, or ON
\* CONFLICT(naver_id) DO UPDATE SET user_id and created_at from the new row.
LinkNaverIdentityRows(table, row) ==
    IF \E r \in table : r.naver_id = row.naver_id
    THEN {IF r.naver_id = row.naver_id THEN row ELSE r : r \in table}
    ELSE table \cup {row}

\* The row of naver_accounts a call writes at instant now.
NaverAccountRowAt(a, now) ==
    [user_id |-> a.user_id, client_id |-> a.client_id,
     client_secret |-> a.client_secret, redirect_uri |-> a.redirect_uri,
     access_token |-> a.access_token, refresh_token |-> a.refresh_token,
     token_expires_at |-> a.token_expires_at, updated_at |-> now]

\* The row of naver_identities a call writes at instant now.
NaverIdentityRowAt(a, now) ==
    [naver_id |-> a.naver_id, user_id |-> a.user_id, created_at |-> now]

\* The rows without their timestamps.
AccountsWithoutTime(table) == {[r EXCEPT !.updated_at = 0] : r \in table}
IdentitiesWithoutTime(table) == {[r EXCEPT !.created_at = 0] : r \in table}

\* The row a statement finds under its key, or NoRow.
FoundRow(found) ==
    IF found = {} THEN NoRow
    ELSE [present |-> TRUE, rows |-> found]

\* store.upsert_naver_account(**a), called at time.time() = clock.
UpsertNaverAccountCall(a) ==
    /\ account_rows' = UpsertNaverAccountRows(account_rows, NaverAccountRowAt(a, clock))
    /\ response' = [Idle EXCEPT !.op = "upsert_naver_account",
                                !.user_id = a.user_id, !.account = a,
                                !.row = FoundRow({r \in account_rows :
                                                    r.user_id = a.user_id}),
                                !.now = clock]
    /\ UNCHANGED <<clock, config, queue, identity_rows, oauth, naver, hub_users,
                   telegram_verifications, issued, history, handler>>

\* store.link_naver_identity(naver_id, user_id), called at time.time() = clock.
LinkNaverIdentityCall(a) ==
    /\ identity_rows' = LinkNaverIdentityRows(identity_rows, NaverIdentityRowAt(a, clock))
    /\ response' = [Idle EXCEPT !.op = "link_naver_identity",
                                !.naver_id = a.naver_id, !.user_id = a.user_id,
                                !.row = FoundRow({r \in identity_rows :
                                                    r.naver_id = a.naver_id}),
                                !.now = clock]
    /\ UNCHANGED <<clock, config, queue, account_rows, oauth, naver, hub_users,
                   telegram_verifications, issued, history, handler>>

\* ----------------------------------------------------------- specifications
\* Request bodies: a well-formed and a malformed telegram_user_id.
ValidRaw == <<"5", "5", "5", "5", "5">>
MalformedRaw == <<"n", "o", "t", "-", "a">>

\* A session token _verify_token accepts for user u.
SessionOf(u) ==
    [bearer |-> TRUE, form |-> "jwt", sub |-> u, iat |-> 0, exp |-> MaxTime + 1,
     secret |-> JWT_SECRET]

\* Spec: the challenge life cycle under concurrent handlers, with
\* authenticated requests: registration, challenge creation and completions
\* that carry a well-formed telegram_user_id.
Next ==
    \/ Tick
    \/ \E p \in Procs, u \in UserIds : RegisterBegin(p, u, <<>>, HUB_API_KEY)
    \/ \E p \in Procs, u \in UserIds : CreateBegin(p, SessionOf(u))
    \/ \E p \in Procs : CreateTx(p)
    \/ \E p \in Procs, n \in Nonces : CompleteBegin(p, n, ValidRaw, HUB_API_KEY)
    \/ \E p \in Procs : ConsumeSelect(p)
    \/ \E p \in Procs : ConsumeDelete(p)
    \/ \E p \in Procs : CompleteIsUser(p)
    \/ \E p \in Procs : SetTelegramSelect(p)
    \/ \E p \in Procs : SetTelegramUpdate(p)

Spec == Init /\ [][Next]_vars

\* SeqSpec: one request at a time (slot h1), authenticated: registration,
\* challenge creation and completions with a well-formed or a malformed
\* telegram_user_id, for every max_attempts argument up to the handlers'.
InitSeq ==
    /\ InitStore
    /\ InitKeys
    /\ ALLOW_NEW_USERS = TRUE
    /\ max_attempts \in 1..TELEGRAM_VERIFY_MAX_ATTEMPTS
    /\ JWT_TTL_SECONDS = MaxTime + 1

NextSeq ==
    \/ Tick
    \/ \E u \in UserIds : RegisterBegin("h1", u, <<>>, HUB_API_KEY)
    \/ \E u \in UserIds : CreateBegin("h1", SessionOf(u))
    \/ \E n \in Nonces, raw \in {ValidRaw, MalformedRaw} :
           CompleteBegin("h1", n, raw, HUB_API_KEY)
    \/ CreateTx("h1")
    \/ FailSelect("h1")
    \/ FailWrite("h1")
    \/ ConsumeSelect("h1")
    \/ ConsumeDelete("h1")
    \/ CompleteIsUser("h1")
    \/ SetTelegramSelect("h1")
    \/ SetTelegramUpdate("h1")

SeqSpec == InitSeq /\ [][NextSeq]_vars

\* LinkSpec: linking handles under concurrent handlers, at one instant:
\* registration with and without a handle, challenge creation and
\* completions that carry a well-formed telegram_user_id.
NextLink ==
    \/ \E p \in Procs, u \in UserIds, raw \in RawTelegramIds :
           RegisterBegin(p, u, raw, HUB_API_KEY)
    \/ \E p \in Procs, u \in UserIds : CreateBegin(p, SessionOf(u))
    \/ \E p \in Procs : CreateTx(p)
    \/ \E p \in Procs, n \in Nonces : CompleteBegin(p, n, ValidRaw, HUB_API_KEY)
    \/ \E p \in Procs : ConsumeSelect(p)
    \/ \E p \in Procs : ConsumeDelete(p)
    \/ \E p \in Procs : CompleteIsUser(p)
    \/ \E p \in Procs : SetTelegramSelect(p)
    \/ \E p \in Procs : SetTelegramUpdate(p)

LinkSpec == Init /\ [][NextLink]_vars

\* ProfileSpec: u1 registers, with or without a handle; PATCH /profile and
\* challenge creation are called without a bearer token, with a token that is
\* no JWT and with the sessions of u1 and of u2, who never registers.
ProfileAuths == {NoAuth, MalformedToken, SessionOf("u1"), SessionOf("u2")}

NextProfile ==
    \/ Tick
    \/ \E p \in Procs, raw \in {<<>>, ValidRaw} :
           RegisterBegin(p, "u1", raw, HUB_API_KEY)
    \/ \E p \in Procs : SetTelegramSelect(p)
    \/ \E p \in Procs : SetTelegramUpdate(p)
    \/ \E p \in Procs, raw \in RawTelegramIds, auth \in ProfileAuths :
           UpdateProfile(p, raw, auth)
    \/ \E p \in Procs, auth \in ProfileAuths : CreateBegin(p, auth)
    \/ \E p \in Procs : CreateTx(p)

ProfileSpec == Init /\ [][NextProfile]_vars


\* OauthSpec: concurrent callers of save_oauth_state and pop_oauth_state.
NextOauth ==
    \/ \E p \in Procs, d \in SavedPairs : SaveOauthState(p, d.user_id, d.flow)
    \/ \E p \in Procs, s \in OauthStates : PopSelect(p, s)
    \/ \E p \in Procs : PopDelete(p)

OauthSpec == Init /\ [][NextOauth]_vars

\* SessionSpec: session tokens are issued for every JWT_TTL_SECONDS of
\* SessionTtls and presented, with other Authorization headers, to
\* /auth/status while time passes.
SessionTtls == {0, TickSeconds}

InitSession ==
    /\ InitStore
    /\ InitKeys
    /\ ALLOW_NEW_USERS = TRUE
    /\ max_attempts = TELEGRAM_VERIFY_MAX_ATTEMPTS
    /\ JWT_TTL_SECONDS \in SessionTtls

NextSession ==
    \/ Tick
    \/ \E sub \in UserIds : SessionIssue(sub)
    \/ \E p \in Procs, auth \in Authorizations \cup sessions : AuthStatus(p, auth)

SessionSpec == InitSession /\ [][NextSession]_vars

\* The login flow: registration through /register, login states, and
\* callbacks racing on two workers while registration is opened and closed.
NextNaverLogin ==
    \/ \E allow \in BOOLEAN : Restart(allow)
    \/ \E p \in Procs :
        \/ RegisterBegin(p, "u1", <<>>, "hub-api-key")
        \/ AuthNaverLogin(p)
        \/ \E code \in {"", "code"}, state \in 0..MaxStates :
               CallbackBegin(p, code, state)
        \/ PopDelete(p)
        \/ CallbackGetAccount(p)
        \/ \E data \in TokenResponses : CallbackExchange(p, data)
        \/ \E naver_id \in NaverIds \cup {""} : CallbackProfile(p, naver_id)
        \/ CallbackGetMapping(p)
        \/ CallbackAddUser(p)
        \/ CallbackLinkIdentity(p)
        \/ CallbackUpsert(p)

NaverLoginSpec == Init /\ [][NextNaverLogin]_vars

\* The link flow: two registered users store their client info, u1 asks
\* for link states and the callbacks race on two workers.
NextNaverLink ==
    \E p \in Procs :
        \/ \E user_id \in UserIds : RegisterBegin(p, user_id, <<>>, "hub-api-key")
        \/ \E user_id \in UserIds :
               NaverSet(p, user_id, "own-id", "", NoAuth, "hub-api-key")
        \/ NaverLink(p, "u1", NoAuth, "hub-api-key")
        \/ \E code \in {"", "code"}, state \in 0..MaxStates :
               CallbackBegin(p, code, state)
        \/ PopDelete(p)
        \/ CallbackGetAccount(p)
        \/ \E data \in TokenResponses : CallbackExchange(p, data)
        \/ CallbackUpsert(p)

NaverLinkSpec == Init /\ [][NextNaverLink]_vars

\* Returning logins: login states are saved and callbacks race on two
\* workers with the subjects of LoginSubjects, registration being open.
LoginSubjects == {"n1", "n2"}

NextMapping ==
    \E p \in Procs :
        \/ AuthNaverLogin(p)
        \/ \E state \in OauthStates : CallbackBegin(p, "code", state)
        \/ PopDelete(p)
        \/ CallbackGetAccount(p)
        \/ \E data \in TokenResponses : CallbackExchange(p, data)
        \/ \E naver_id \in LoginSubjects : CallbackProfile(p, naver_id)
        \/ CallbackGetMapping(p)
        \/ CallbackAddUser(p)
        \/ CallbackLinkIdentity(p)
        \/ CallbackUpsert(p)

MappingSpec == Init /\ [][NextMapping]_vars

\* The two upserts called with every argument of AccountArgs and
\* IdentityArgs, again and again, while time passes.
AccountArgs ==
    [user_id : UserIds, client_id : {"own-id"}, client_secret : {"client-secret"},
     redirect_uri : {DefaultRedirectUri}, access_token : {"access-1", "access-2"},
     refresh_token : {"refresh-1"}, token_expires_at : {0, TickSeconds}]

IdentityArgs == [naver_id : LoginSubjects, user_id : UserIds]

Times == {t \in 0..MaxTime : t % TickSeconds = 0}

NextUpsert ==
    \/ Tick
    \/ \E a \in AccountArgs : UpsertNaverAccountCall(a)
    \/ \E a \in IdentityArgs : LinkNaverIdentityCall(a)

UpsertSpec == Init /\ [][NextUpsert]_vars

\* Attempt counting under concurrent handlers, at one instant: u1 is
\* registered and creates challenges, and completions with a well-formed or
\* a malformed telegram_user_id for the nonce handed out last race, for
\* every max_attempts argument up to MaxAttemptArg.
InitAttempt ==
    /\ clock = 0
    /\ InitKeys
    /\ ALLOW_NEW_USERS = TRUE
    /\ max_attempts \in 1..MaxAttemptArg
    /\ JWT_TTL_SECONDS = MaxTime + 1
    /\ hub_users = AddUser(<<>>, "u1")
    /\ telegram_verifications = <<>>
    /\ issued = 0
    /\ consumed_ok = [n \in Nonces |-> 0]
    /\ fail_calls = [n \in Nonces |-> 0]
    /\ naver_identities = <<>>
    /\ naver_accounts = <<>>
    /\ posts = <<>>
    /\ sessions = {}
    /\ refresh_calls = 0
    /\ write_calls = 0
    /\ oauth_states = <<>>
    /\ saved_states = <<>>
    /\ popped = [s \in OauthStates |-> 0]
    /\ jobs = <<>>
    /\ fetched = [j \in JobIds |-> 0]
    /\ account_rows = {}
    /\ identity_rows = {}
    /\ handler = [p \in Procs |-> Idle]
    /\ response = NoResponse

NextAttempt ==
    \E p \in Procs :
        \/ CreateBegin(p, SessionOf("u1"))
        \/ CreateTx(p)
        \/ \E raw \in {ValidRaw, MalformedRaw} :
               issued >= 1 /\ CompleteBegin(p, issued, raw, HUB_API_KEY)
        \/ FailSelect(p)
        \/ FailWrite(p)
        \/ ConsumeSelect(p)
        \/ ConsumeDelete(p)
        \/ CompleteIsUser(p)
        \/ SetTelegramSelect(p)
        \/ SetTelegramUpdate(p)

AttemptSpec == InitAttempt /\ [][NextAttempt]_vars

\* Publishing: u1 and u2 are registered and u1 has completed a link with
\* either answer of the token endpoint (the store a link callback at time 0
\* leaves); posts are saved, u2 stores its client info, time passes and
\* publish requests race on two workers.
InitPublish ==
    /\ clock = 0
    /\ InitKeys
    /\ ALLOW_NEW_USERS = TRUE
    /\ max_attempts = TELEGRAM_VERIFY_MAX_ATTEMPTS
    /\ JWT_TTL_SECONDS = MaxTime + 1
    /\ hub_users = AddUser(AddUser(<<>>, "u1"), "u2")
    /\ \E data \in {d \in TokenResponses : d.ok} :
          naver_accounts =
              UpsertNaverAccount(<<>>, "u1",
                  AccountRow("own-id", NAVER_CLIENT_SECRET, DefaultRedirectUri,
                             ExchangeCode(data).access_token,
                             ExchangeCode(data).refresh_token,
                             ExpiresAt(ExchangeCode(data).expires_in, 0)))
    /\ telegram_verifications = <<>>
    /\ issued = 0
    /\ consumed_ok = [n \in Nonces |-> 0]
    /\ fail_calls = [n \in Nonces |-> 0]
    /\ naver_identities = <<>>
    /\ posts = <<>>
    /\ sessions = {}
    /\ refresh_calls = 0
    /\ write_calls = 0
    /\ oauth_states = <<>>
    /\ saved_states = <<>>
    /\ popped = [s \in OauthStates |-> 0]
    /\ jobs = <<>>
    /\ fetched = [j \in JobIds |-> 0]
    /\ account_rows = {}
    /\ identity_rows = {}
    /\ handler = [p \in Procs |-> Idle]
    /\ response = NoResponse

NextPublish ==
    \/ Tick
    \/ \E p \in Procs :
        \/ SavePost(p, "u1", "title", "body", NoAuth, "hub-api-key")
        \/ NaverSet(p, "u2", "own-id", "", NoAuth, "hub-api-key")
        \/ \E user_id \in UserIds :
               PublishBegin(p, user_id, 0, "", NoAuth, "hub-api-key")
        \/ PublishSelectPost(p)
        \/ \E data \in TokenResponses : PublishRefresh(p, data)
        \/ PublishUseStored(p)
        \/ PublishUpsert(p)
        \/ \E ok \in BOOLEAN : PublishWrite(p, ok)

PublishSpec == InitPublish /\ [][NextPublish]_vars

\* Both flows at once: with u1 and u2 registered and u1 linked, login
\* states and link states of u1 are saved and their callbacks race on two
\* workers.
NextCallback ==
    \E p \in Procs :
        \/ AuthNaverLogin(p)
        \/ NaverLink(p, "u1", NoAuth, "hub-api-key")
        \/ \E state \in OauthStates : CallbackBegin(p, "code", state)
        \/ PopDelete(p)
        \/ CallbackGetAccount(p)
        \/ \E data \in TokenResponses : CallbackExchange(p, data)
        \/ \E naver_id \in NaverIds : CallbackProfile(p, naver_id)
        \/ CallbackGetMapping(p)
        \/ CallbackAddUser(p)
        \/ CallbackLinkIdentity(p)
        \/ CallbackUpsert(p)

CallbackSpec == InitPublish /\ [][NextCallback]_vars

\* Content selection, requests served one at a time: both users save
\* posts, empty ones too, while time passes, and u1 publishes with and
\* without a post id and a title.
NextContent ==
    \/ Tick
    \/ \E p \in {"h1"} :
        \/ \E user_id \in UserIds, content \in {"", "body"} :
               SavePost(p, user_id, "title", content, NoAuth, "hub-api-key")
        \/ \E post_id \in 0..MaxPosts, title \in {"", "custom"} :
               PublishBegin(p, "u1", post_id, title, NoAuth, "hub-api-key")
        \/ PublishSelectPost(p)
        \/ \E data \in TokenResponses : PublishRefresh(p, data)
        \/ PublishUseStored(p)
        \/ PublishUpsert(p)
        \/ \E ok \in BOOLEAN : PublishWrite(p, ok)

ContentSpec == InitPublish /\ [][NextContent]_vars

\* The job queue: u1 is registered, jobs are created while time passes and
\* claimed and completed by workers' requests racing on two slots.
NextJob ==
    \/ Tick
    \/ \E p \in Procs :
        \/ RegisterBegin(p, "u1", <<>>, "hub-api-key")
        \/ CreateJob(p, "u1", "hub-api-key")
        \/ NextJobSelect(p, "hub-api-key")
        \/ NextJobUpdate(p)
        \/ \E job_id \in JobIds : CompleteJob(p, job_id, "hub-api-key")

JobSpec == Init /\ [][NextJob]_vars

\* Keys a caller without the shared secret presents: none, or another one.
WrongKeys == {"", "wrong-key"}

\* The shared secret configured, or left at its default "".
InitKey ==
    /\ InitStore
    /\ HUB_API_KEY \in ApiKeys
    /\ NAVER_CLIENT_ID = "client-id"
    /\ NAVER_CLIENT_SECRET = "client-secret"
    /\ ALLOW_NEW_USERS = TRUE
    /\ max_attempts = TELEGRAM_VERIFY_MAX_ATTEMPTS
    /\ JWT_TTL_SECONDS = MaxTime + 1

\* The routes behind _require_key called without the shared secret, in
\* both configurations; challenges are created by session holders.
NextKey ==
    \E p \in Procs :
        \/ \E u \in UserIds, api_key \in WrongKeys : RegisterBegin(p, u, <<>>, api_key)
        \/ \E api_key \in WrongKeys : CreateJob(p, "u1", api_key)
        \/ \E api_key \in WrongKeys : NextJobSelect(p, api_key)
        \/ NextJobUpdate(p)
        \/ \E job_id \in JobIds, api_key \in WrongKeys : CompleteJob(p, job_id, api_key)
        \/ CreateBegin(p, SessionOf("u1"))
        \/ CreateTx(p)
        \/ \E n \in Nonces, api_key \in WrongKeys : CompleteBegin(p, n, ValidRaw, api_key)
        \/ ConsumeSelect(p)
        \/ ConsumeDelete(p)
        \/ CompleteIsUser(p)
        \/ SetTelegramSelect(p)
        \/ SetTelegramUpdate(p)

KeySpec == InitKey /\ [][NextKey]_vars

\* POST /posts called with and without a session and the API key, and
\* POST /internal/posts with and without the service's credentials, for
\* either user, while time passes.
NextPost ==
    \/ Tick
    \/ \E p \in Procs, user_id \in UserIds, api_key \in ApiKeys,
          auth \in {NoAuth, MalformedToken} \cup {SessionOf(u) : u \in UserIds} :
           SavePost(p, user_id, "title", "body", auth, api_key)
    \/ \E p \in Procs, user_id \in UserIds, title \in {"t", "t2"},
          internal_key \in {"", "wrong-key", HUB_INTERNAL_API_KEY},
          auth \in {NoAuth, ServiceBearer(HUB_SERVICE_TOKEN), ServiceBearer("other")} :
           InternalSavePost(p, user_id, title, "c", auth, internal_key)

PostSpec == Init /\ [][NextPost]_vars

\* ------------------------------------------------------------ properties
\* The challenges stored for user u.
ChallengesOf(u) ==
    {n \in DOMAIN telegram_verifications : telegram_verifications[n].user_id = u}

\* The row a consume call read is live at the call's instant: unconsumed,
\* unexpired, attempts below the maximum.
LiveRow(h) ==
    /\ h.row.present
    /\ h.row.used_at = NULL
    /\ ~(h.row.expires_at < h.now)
    /\ h.row.attempt_count < max_attempts

\* C1: a nonce (created once: nonces are fresh) is consumed with ok at most
\* once, and every consume call that reads the table after the ok returns
\* invalid.
C1_SingleUse ==
    /\ [](\A n \in Nonces : consumed_ok[n] <= 1)
    /\ [][\A p \in Procs :
            (/\ handler[p].pc = "consume_select"
             /\ handler'[p].pc # "consume_select"
             /\ consumed_ok[handler[p].nonce] >= 1)
            => (/\ response'.challenge = "invalid"
                /\ response'.nonce = handler[p].nonce
                /\ response'.detail = "invalid_nonce")]_vars

\* A consume call returned invalid for a nonce that an earlier call consumed.
C1_Witness ==
    /\ response.pc = "consume_select"
    /\ response.challenge = "invalid"
    /\ response.nonce \in Nonces
    /\ consumed_ok[response.nonce] = 1

\* C2: when two handlers have both read the same live nonce, the first of
\* them to run its DELETE observes ok, and the one that runs its DELETE
\* after the other's ok observes invalid.
C2_RaceOneWinner ==
    /\ [][\A p, q \in Procs :
            (/\ p # q
             /\ handler[p].pc = "consume_delete" /\ LiveRow(handler[p])
             /\ handler[q].pc = "consume_delete" /\ LiveRow(handler[q])
             /\ handler[p].nonce = handler[q].nonce
             /\ handler'[p].pc # "consume_delete")
            => (/\ handler'[p].challenge = "ok"
                /\ consumed_ok'[handler[p].nonce] = 1
                /\ handler'[q] = handler[q])]_vars
    /\ [][\A q \in Procs :
            (/\ handler[q].pc = "consume_delete" /\ LiveRow(handler[q])
             /\ consumed_ok[handler[q].nonce] = 1
             /\ handler'[q].pc # "consume_delete")
            => (/\ response'.challenge = "invalid"
                /\ response'.status = 400
                /\ response'.detail = "invalid_nonce"
                /\ consumed_ok' = consumed_ok)]_vars

\* The loser of a race: it read the nonce live and its DELETE found nothing,
\* while the winner holds ok for the same nonce.
C2_Witness ==
    /\ response.pc = "consume_delete"
    /\ response.challenge = "invalid"
    /\ LiveRow(response)
    /\ \E p \in Procs : /\ handler[p].challenge = "ok"
                        /\ handler[p].nonce = response.nonce

\* C5: no two distinct users hold the same non-null telegram_id.
C5_HandleUnique ==
    \A u, v \in DOMAIN hub_users :
        (u # v /\ hub_users[u].telegram_id # NULL)
        => hub_users[u].telegram_id # hub_users[v].telegram_id

\* Two users raced for one handle: the unique index refused the second UPDATE.
C5_Witness ==
    /\ response.pc = "set_update"
    /\ response.status = 500
    /\ \E v \in DOMAIN hub_users \ {response.user_id} :
           hub_users[v].telegram_id = response.telegram_id

\* C6: a set_telegram_id call (from register or verify-complete) whose
\* ownership check runs while another user holds the handle fails with 409
\* telegram_id_already_linked and leaves every user's telegram_id as it was.
C6_AlreadyLinked ==
    [][\A p \in Procs :
         (/\ handler[p].pc = "set_select"
          /\ handler'[p].pc # "set_select"
          /\ \E v \in DOMAIN hub_users \ {handler[p].user_id} :
                 hub_users[v].telegram_id = handler[p].telegram_id)
         => (/\ response'.status = 409
             /\ response'.detail = "telegram_id_already_linked"
             /\ response'.user_id = handler[p].user_id
             /\ hub_users' = hub_users)]_vars

\* A verify-complete for a second user was refused with 409 while the first
\* user still holds the handle and the second user's handle is unset.
C6_Witness ==
    /\ response.op = "complete"
    /\ response.status = 409
    /\ response.user_id \in DOMAIN hub_users
    /\ hub_users[response.user_id].telegram_id = NULL
    /\ \E v \in DOMAIN hub_users \ {response.user_id} :
           hub_users[v].telegram_id = response.telegram_id

\* C7: a set_telegram_id call that does not obtain the handle fails with the
\* distinct already_linked condition (409), never with a generic error.
C7_LoserGetsAlreadyLinked ==
    (response.pc \in {"set_select", "set_update"} /\ response.status # 200)
    => (response.status = 409 /\ response.detail = "telegram_id_already_linked")

\* C8: with max_attempts = m, the k-th consecutive fail call on an unexpired
\* challenge returns failed for k < m and max_attempts for k = m, which
\* deletes the challenge; a consume of the nonce afterwards returns invalid.
C8_FailuresReachMax ==
    /\ \A n \in Nonces :
          /\ fail_calls[n] <= max_attempts
          /\ fail_calls[n] = max_attempts => n \notin DOMAIN telegram_verifications
    /\ response.failed \in {"failed", "max_attempts"}
          => response.failed = IF fail_calls[response.nonce] < max_attempts
                               THEN "failed" ELSE "max_attempts"
    /\ (response.challenge # "none" /\ fail_calls[response.nonce] = max_attempts)
          => response.challenge = "invalid"

\* With the handlers' max_attempts, a consume after the fifth failure.
C8_Witness ==
    /\ max_attempts = TELEGRAM_VERIFY_MAX_ATTEMPTS
    /\ response.challenge = "invalid"
    /\ fail_calls[response.nonce] = TELEGRAM_VERIFY_MAX_ATTEMPTS

\* C9: a consume call that reads a row whose expires_at lies before the
\* call's instant returns expired, whatever the attempt count, and leaves no
\* row for the nonce; the row stays absent, and a consume call that finds no
\* row returns invalid.
C9_ExpiredConsume ==
    /\ [][\A p \in Procs :
            (/\ handler[p].pc = "consume_delete"
             /\ handler'[p].pc # "consume_delete"
             /\ handler[p].row.expires_at < handler[p].now)
            => (/\ response'.challenge = "expired"
                /\ response'.status = 400
                /\ response'.detail = "expired_nonce"
                /\ response'.row.attempt_count = handler[p].row.attempt_count
                /\ handler[p].nonce \notin DOMAIN telegram_verifications')]_vars
    /\ [][\A n \in Nonces :
            (/\ n \notin DOMAIN telegram_verifications
             /\ \A p \in Procs : ~(handler[p].pc = "create_tx" /\ handler[p].nonce = n))
            => n \notin DOMAIN telegram_verifications']_vars
    /\ [][\A p \in Procs :
            (/\ handler[p].pc = "consume_select"
             /\ handler'[p].pc # "consume_select"
             /\ handler[p].nonce \notin DOMAIN telegram_verifications)
            => (response'.challenge = "invalid" /\ response'.status = 400)]_vars

\* An expired challenge with failed attempts on it was consumed.
C9_Witness ==
    /\ response.challenge = "expired"
    /\ response.row.attempt_count >= 1
    /\ response.nonce \notin DOMAIN telegram_verifications

\* C10: every user owns at most one stored challenge; after a challenge is
\* created for a user it is that user's only one; and a nonce with no stored
\* row is never consumed with ok.
C10_OneChallengePerUser ==
    /\ [](/\ \A u \in UserIds : Cardinality(ChallengesOf(u)) <= 1
          /\ (response.op = "challenge" /\ response.status = 200)
                => ChallengesOf(response.user_id) = {response.nonce})
    /\ [][\A n \in Nonces :
            n \notin DOMAIN telegram_verifications
            => consumed_ok'[n] = consumed_ok[n]]_vars

\* A second challenge of the only registered user replaced the first, which
\* was neither consumed nor expired.
C10_Witness ==
    /\ response.op = "challenge" /\ response.status = 200
    /\ response.nonce = 2
    /\ DOMAIN hub_users = {response.user_id}
    /\ DOMAIN telegram_verifications = {2}
    /\ consumed_ok[1] = 0
    /\ clock = 0
    /\ \A p \in Procs : handler[p].pc = "idle"


\* C3: a saved state stays stored, as saved, until a pop returns it; a pop
\* that returns data returns the saved user id and flow; and a pop called
\* after a pop returned the state's data finds no row (it never goes on to
\* its DELETE) and returns None.
C3_PopOnce ==
    /\ [](/\ \A s \in DOMAIN saved_states :
                /\ popped[s] = 0 => (s \in DOMAIN oauth_states
                                     /\ oauth_states[s] = saved_states[s])
                /\ popped[s] >= 1 => s \notin DOMAIN oauth_states
          /\ response.detail = "state_info"
                => (/\ response.state \in DOMAIN saved_states
                    /\ response.row.user_id = saved_states[response.state].user_id
                    /\ response.row.flow = saved_states[response.state].flow))
    /\ [][\A p \in Procs :
            (/\ handler[p].pc = "idle"
             /\ handler'[p].op = "pop_oauth_state"
             /\ handler'[p].pc = "pop_delete")
            => popped[handler'[p].state] = 0]_vars
    /\ [][(response'.op = "pop_oauth_state" /\ response'.pc = "idle")
            => (response'.detail = "None" /\ ~response'.row.present)]_vars

\* A pop returned None for a state whose data an earlier pop returned.
C3_Witness ==
    /\ response.op = "pop_oauth_state"
    /\ response.detail = "None"
    /\ response.state \in DOMAIN saved_states
    /\ popped[response.state] = 1

\* C4: of the pop calls on one state, concurrent ones included, at most one
\* obtains the data.
C4_AtMostOnePop ==
    \A s \in OauthStates : popped[s] <= 1

\* C11: at the verify-complete endpoint (max_attempts = 5) a completion with
\* a malformed telegram_user_id for a live nonce is the k-th counted failure:
\* for k < 5 it fails with invalid_telegram_user_id and the challenge stays,
\* with k attempts recorded; for k = 5 it fails with max_attempts_reached and
\* the challenge is deleted.  After that a well-formed completion for the
\* nonce fails with invalid_nonce, and no request for the nonce changes
\* hub_users.
C11_MalformedCountsAsAttempt ==
    /\ [](max_attempts = TELEGRAM_VERIFY_MAX_ATTEMPTS =>
            /\ (response.pc = "fail_write" /\ response.failed # "expired") =>
                  LET k == fail_calls[response.nonce]
                  IN  /\ response.status = 400
                      /\ k \in 1..TELEGRAM_VERIFY_MAX_ATTEMPTS
                      /\ k < TELEGRAM_VERIFY_MAX_ATTEMPTS =>
                            /\ response.detail = "invalid_telegram_user_id"
                            /\ response.nonce \in DOMAIN telegram_verifications
                            /\ telegram_verifications[response.nonce].attempt_count = k
                      /\ k = TELEGRAM_VERIFY_MAX_ATTEMPTS =>
                            /\ response.detail = "max_attempts_reached"
                            /\ response.nonce \notin DOMAIN telegram_verifications
            /\ (response.pc \in {"consume_select", "consume_delete"}
                /\ fail_calls[response.nonce] = TELEGRAM_VERIFY_MAX_ATTEMPTS) =>
                  (response.status = 400 /\ response.detail = "invalid_nonce"))
    /\ [][\A p \in Procs :
            (/\ max_attempts = TELEGRAM_VERIFY_MAX_ATTEMPTS
             /\ handler[p].op = "complete"
             /\ fail_calls[handler[p].nonce] = TELEGRAM_VERIFY_MAX_ATTEMPTS)
            => (/\ hub_users' = hub_users
                /\ handler'[p] # handler[p] => handler'[p].pc = "idle")]_vars

\* A well-formed completion was refused with invalid_nonce after the fifth
\* malformed completion deleted the challenge.
C11_Witness ==
    /\ max_attempts = TELEGRAM_VERIFY_MAX_ATTEMPTS
    /\ response.pc = "consume_select"
    /\ response.telegram_id # NULL
    /\ response.detail = "invalid_nonce"
    /\ fail_calls[response.nonce] = TELEGRAM_VERIFY_MAX_ATTEMPTS

\* C12: challenge n is stored for the user who created it and stays that
\* user's while stored; a consume that returns ok hands the handler that
\* user; the handler keeps user, nonce and the normalised numeric id t up to
\* its UPDATE; and the successful UPDATE sets telegram_id = t for that user
\* and changes no other user.
C12_CompleteLinksCreator ==
    /\ [][\A p \in Procs :
            (handler[p].pc = "create_tx" /\ handler'[p].pc # "create_tx")
            => (/\ handler[p].nonce \in DOMAIN telegram_verifications'
                /\ telegram_verifications'[handler[p].nonce].user_id
                       = handler[p].user_id)]_vars
    /\ [][\A n \in DOMAIN telegram_verifications \cap DOMAIN telegram_verifications' :
            telegram_verifications'[n].user_id
                = telegram_verifications[n].user_id]_vars
    /\ [][\A p \in Procs :
            (handler[p].pc = "consume_delete" /\ handler'[p].pc = "is_user")
            => (/\ handler[p].nonce \in DOMAIN telegram_verifications
                /\ handler'[p].user_id
                       = telegram_verifications[handler[p].nonce].user_id
                /\ handler'[p].nonce = handler[p].nonce
                /\ handler'[p].telegram_id = handler[p].telegram_id
                /\ MatchesNumeric(handler[p].telegram_id))]_vars
    /\ [][\A p \in Procs :
            (/\ handler[p].op = "complete"
             /\ handler[p].pc \in {"is_user", "set_select"}
             /\ handler'[p].pc \in {"set_select", "set_update"})
            => (/\ handler'[p].user_id = handler[p].user_id
                /\ handler'[p].nonce = handler[p].nonce
                /\ handler'[p].telegram_id = handler[p].telegram_id)]_vars
    /\ [][\A p \in Procs :
            (/\ handler[p].op = "complete"
             /\ handler[p].pc = "set_update"
             /\ handler'[p].pc = "idle"
             /\ response'.status = 200)
            => (/\ handler[p].user_id \in DOMAIN hub_users
                /\ hub_users' = [hub_users EXCEPT ![handler[p].user_id].telegram_id
                                                      = handler[p].telegram_id]
                /\ response'.user_id = handler[p].user_id
                /\ response'.nonce = handler[p].nonce
                /\ response'.telegram_id = handler[p].telegram_id)]_vars

\* A verify-complete succeeded for one of two registered users; the other
\* user's telegram_id is still unset.
C12_Witness ==
    /\ response.op = "complete" /\ response.status = 200
    /\ response.pc = "set_update"
    /\ DOMAIN hub_users = UserIds
    /\ hub_users[response.user_id].telegram_id = response.telegram_id
    /\ \A v \in UserIds \ {response.user_id} : hub_users[v].telegram_id = NULL

\* C13: a session token is issued with exp = iat + JWT_TTL_SECONDS; presented
\* at an instant before its exp it is accepted and yields its subject;
\* presented at an instant after its exp it is refused with 401 unauthorized.
C13_SessionExpiry ==
    /\ \A t \in sessions : t.exp = t.iat + JWT_TTL_SECONDS
    /\ (response.op = "auth_status" /\ response.authorization \in sessions) =>
          /\ response.now < response.authorization.exp =>
                /\ response.status = 200
                /\ response.detail = "ok"
                /\ response.user_id = response.authorization.sub
          /\ response.now > response.authorization.exp =>
                /\ response.status = 401
                /\ response.detail = "unauthorized"

\* A session token with a positive lifetime was refused after its expiry.
C13_Witness ==
    /\ response.op = "auth_status"
    /\ response.authorization \in sessions
    /\ JWT_TTL_SECONDS > 0
    /\ response.now > response.authorization.exp
    /\ response.status = 401

\* The bearer tokens that jwt.decode refuses at instant now.
RefusedTokens(now) ==
    {a \in Authorizations \cup sessions :
        a.bearer /\ DecodeToken(a, now) # "none"}

\* C14: whatever makes jwt.decode refuse a token (it is malformed, its
\* signature is bad, it has expired), _verify_token fails with the same
\* value, 401 unauthorized: any two refused tokens get equal results, and the
\* response to a refused token is 401 unauthorized with no subject.
C14_UniformTokenFailure ==
    /\ \A a, b \in RefusedTokens(clock) :
          /\ VerifyToken(a, clock) = VerifyToken(b, clock)
          /\ ~VerifyToken(a, clock).ok
    /\ (response.op = "auth_status" /\ response.authorization.bearer
        /\ DecodeToken(response.authorization, response.now) # "none") =>
          /\ response.status = 401
          /\ response.detail = "unauthorized"
          /\ response.user_id = ""

\* An issued session token was refused because it expired, at an instant when
\* a malformed and a badly signed token are refused too.
C14_Witness ==
    /\ response.op = "auth_status"
    /\ response.authorization \in sessions
    /\ DecodeToken(response.authorization, response.now) = "ExpiredSignatureError"
    /\ response.status = 401
    /\ {DecodeToken(a, clock) : a \in RefusedTokens(clock)}
          = {"DecodeError", "InvalidSignatureError", "ExpiredSignatureError"}

\* The tables a login may extend.
accounts == <<hub_users, naver_identities, naver_accounts>>

\* C15: a login callback that got a token and a subject s answers 200
\* unless registration is closed and s resolves to no registered user; when
\* it answers, s maps to the user u it resolved, u is registered, u's
\* provider account holds the exchanged access and refresh token, and the
\* answer carries a valid session token for u issued at this instant.
C15_LoginCallback ==
    /\ [](response.op = "callback" /\ response.flow = "login" /\ response.status = 200
          => /\ response.naver_id # ""
             /\ GetUserByNaverId(naver_identities, response.naver_id) = response.user_id
             /\ IsUser(response.user_id)
             /\ LET account == GetNaverAccount(naver_accounts, response.user_id)
                IN  /\ account.present
                    /\ account.access_token = response.token.access_token
                    /\ account.refresh_token = response.token.refresh_token
             /\ response.session.sub = response.user_id
             /\ response.session.iat = clock
             /\ VerifyToken(response.session, clock).ok
             /\ VerifyToken(response.session, clock).sub = response.user_id)
    /\ [][\A p \in Procs :
            /\ handler[p].op = "callback"
            /\ handler[p].pc \in {"get_mapping", "add_user", "link_identity", "upsert"}
            /\ handler[p].flow = "login"
            /\ handler'[p] = Idle
            => \/ response'.status = 200
               \/ /\ response'.status = 403
                  /\ ~ALLOW_NEW_USERS
                  /\ ~IsUser(handler[p].user_id)]_vars

\* A login answered 200 for a user registered before registration was
\* closed, with the second token of the provider.
C15_Witness ==
    /\ response.op = "callback"
    /\ response.flow = "login"
    /\ response.status = 200
    /\ ~ALLOW_NEW_USERS
    /\ response.user_id = NaverUser("n1")
    /\ naver_accounts[response.user_id].access_token = "access-2"

\* C16: while ALLOW_NEW_USERS is off no step adds a user; /register of an
\* unknown id and a login callback that resolves to no registered user
\* answer 403 registration_closed, and no step of the refused operation
\* changes the users, the identity mappings or the provider accounts.
C16_RegistrationClosed ==
    /\ [][~ALLOW_NEW_USERS => DOMAIN hub_users' = DOMAIN hub_users]_vars
    /\ [][/\ ~ALLOW_NEW_USERS
          /\ response'.op = "register"
          /\ ~IsUser(response'.user_id)
          => /\ response'.status = 403
             /\ response'.detail = "registration_closed"
             /\ UNCHANGED accounts]_vars
    /\ [][\A p \in Procs :
            /\ ~ALLOW_NEW_USERS
            /\ handler[p].op = "callback"
            /\ handler[p].flow = "login"
            /\ handler'[p] # handler[p]
            => IF handler[p].pc = "add_user" /\ ~IsUser(handler[p].user_id)
               THEN /\ response'.status = 403
                    /\ response'.detail = "registration_closed"
                    /\ UNCHANGED accounts
               ELSE handler[p].pc \in {"get_account", "exchange", "profile", "get_mapping"}
                    => UNCHANGED accounts]_vars
    /\ [][response'.detail = "registration_closed" => UNCHANGED accounts]_vars

\* A login callback is refused at the gate while a user registered earlier
\* exists.
C16_Witness ==
    /\ response.op = "callback"
    /\ response.pc = "add_user"
    /\ response.detail = "registration_closed"
    /\ hub_users # <<>>
    /\ ~ALLOW_NEW_USERS

\* C17: a callback on a state saved as (u, link) works for u; none of its
\* steps adds a user or writes an identity mapping, and the step that
\* answers 200 puts the exchanged tokens in the provider account of u and
\* leaves the account rows of every other user as they were.
C17_LinkCallback ==
    /\ [][\A p \in Procs :
            /\ handler[p].op = "callback"
            /\ handler[p].row.present
            /\ handler[p].row.flow = "link"
            /\ handler'[p] # handler[p]
            => /\ UNCHANGED <<hub_users, naver_identities>>
               /\ handler[p].row.user_id = saved_states[handler[p].state].user_id
               /\ handler[p].pc # "pop_delete" => handler[p].user_id = handler[p].row.user_id
               /\ handler[p].pc # "upsert" => UNCHANGED naver_accounts
               /\ response'.status = 200
                  => /\ handler[p].pc = "upsert"
                     /\ response'.user_id = handler[p].row.user_id
                     /\ DOMAIN naver_accounts' = DOMAIN naver_accounts
                     /\ naver_accounts'[handler[p].user_id].access_token
                            = handler[p].token.access_token
                     /\ naver_accounts'[handler[p].user_id].refresh_token
                            = handler[p].token.refresh_token
                     /\ \A v \in DOMAIN naver_accounts \ {handler[p].user_id} :
                            naver_accounts'[v] = naver_accounts[v]]_vars

\* A link callback of u1 answered 200 and stored its token while u2 had an
\* account of its own.
C17_Witness ==
    /\ response.op = "callback"
    /\ response.flow = "link"
    /\ response.status = 200
    /\ response.user_id = "u1"
    /\ "u2" \in DOMAIN naver_accounts
    /\ naver_accounts["u1"].access_token = "access-1"
    /\ naver_accounts["u2"].access_token = ""

\* Everything a publish could write to.
stored == <<hub_users, naver_identities, naver_accounts, posts, oauth_states,
            telegram_verifications>>

\* C18: a publish whose stored token_expires_at is in the past makes its one
\* refresh call before its write call; an answer of 400 or above ends it with
\* refresh_failed, without a write call and with naver_accounts as it was.
C18_RefreshBeforePublish ==
    /\ [][\A p \in Procs :
            /\ handler[p].op = "publish"
            /\ handler[p].pc = "token"
            /\ handler[p].account.token_expires_at < clock
            /\ handler'[p] # handler[p]
            => /\ refresh_calls' = refresh_calls + 1
               /\ UNCHANGED <<write_calls, naver_accounts>>
               /\ handler[p].refreshes = 0
               /\ IF handler'[p] = Idle
                  THEN /\ response'.status = 400
                       /\ response'.detail = "refresh_failed"
                       /\ ~response'.token.present
                  ELSE /\ handler'[p].pc = "upsert_refreshed"
                       /\ handler'[p].refreshes = 1
                       /\ handler'[p].token.present]_vars
    /\ [][\A p \in Procs :
            /\ handler[p].op = "publish"
            /\ handler'[p] # handler[p]
            => /\ write_calls' # write_calls
                  => /\ handler[p].pc = "write"
                     /\ write_calls' = write_calls + 1
                     /\ handler[p].account.token_expires_at < handler[p].now
                           => handler[p].refreshes = 1
               /\ refresh_calls' # refresh_calls => handler[p].pc = "token"
               /\ handler[p].pc # "upsert_refreshed" => UNCHANGED naver_accounts]_vars
    /\ [][response'.detail = "refresh_failed"
          => UNCHANGED <<write_calls, naver_accounts>>]_vars

\* A publish found its token expired since a Tick and the provider refused
\* the refresh.
C18_Witness ==
    /\ response.op = "publish"
    /\ response.detail = "refresh_failed"
    /\ response.account.token_expires_at < response.now
    /\ response.refreshes = 1
    /\ write_calls = 0

\* C19: an authorised publish for a user without a naver_accounts row, or
\* with a row whose access_token is empty, answers 400 naver_not_linked at
\* once: no refresh call, no write call, no table changed.
C19_NotLinked ==
    /\ [][\A p \in Procs :
            /\ handler[p].pc = "idle"
            /\ handler'[p].op = "publish"
            => LET account == GetNaverAccount(naver_accounts, handler'[p].user_id)
               IN  account.present /\ account.access_token # ""]_vars
    /\ [][/\ response'.op = "publish"
          /\ response'.pc = "idle"
          /\ LET account == GetNaverAccount(naver_accounts, response'.user_id)
             IN  ~account.present \/ account.access_token = ""
          => /\ response'.status = 400
             /\ response'.detail = "naver_not_linked"
             /\ UNCHANGED <<stored, refresh_calls, write_calls>>]_vars

\* A publish for u2, whose account holds client info and no token, was
\* refused.
C19_Witness ==
    /\ response.op = "publish"
    /\ response.detail = "naver_not_linked"
    /\ response.user_id = "u2"
    /\ "u2" \in DOMAIN naver_accounts
    /\ naver_accounts["u2"].access_token = ""

\* C20: the content a publish goes on with is that of the post named by
\* post_id when one is given (and found, and the user's own), otherwise that
\* of a post of the user with the greatest created_at; it answers 400
\* no_post when no post_id is given and the user has no post, and whenever
\* the content selected is empty.
C20_ContentSelection ==
    [][\A p \in Procs :
          /\ handler[p].op = "publish"
          /\ handler[p].pc = "select_post"
          /\ handler'[p] # handler[p]
          => LET h == handler[p]
                 out == IF handler'[p] = Idle THEN response' ELSE handler'[p]
                 failed == handler'[p] = Idle
                 mine == {i \in DOMAIN posts : posts[i].user_id = h.user_id}
                 no_post == failed /\ out.status = 400 /\ out.detail = "no_post"
             IN  /\ ~failed => out.pc = "token" /\ out.post.present
                 /\ h.post_id # 0 /\ h.post_id \in mine
                    => /\ out.post.post_id = h.post_id
                       /\ out.post.content = posts[h.post_id].content
                       /\ failed <=> out.post.content = ""
                       /\ failed => no_post
                 /\ h.post_id = 0 /\ mine = {} => no_post
                 /\ h.post_id = 0 /\ mine # {}
                    => /\ out.post.post_id \in mine
                       /\ \A i \in mine :
                              posts[i].created_at <= posts[out.post.post_id].created_at
                       /\ out.post.content = posts[out.post.post_id].content
                       /\ failed <=> out.post.content = ""
                       /\ failed => no_post
                 /\ ~failed => out.title = OrElse(h.title, out.post.title)]_vars

\* A publish without post_id went out with the later of u1's two posts.
C20_Witness ==
    /\ response.op = "publish"
    /\ response.status = 200
    /\ response.post_id = 0
    /\ DOMAIN posts = {1, 2}
    /\ posts[1].user_id = "u1"
    /\ posts[2].user_id = "u1"
    /\ posts[1].created_at < posts[2].created_at
    /\ response.post.post_id = 2

\* C21: the token_expires_at written by the callback's upsert and by the
\* upsert after a publish-time refresh is the instant of the write plus the
\* declared lifetime minus the 30-second margin, whatever the lifetime.
C21_ExpiryMinusMargin ==
    [][\A p \in Procs :
          /\ handler[p].pc \in {"upsert", "upsert_refreshed"}
          /\ handler'[p] # handler[p]
          => naver_accounts'[handler[p].user_id].token_expires_at
                = clock + handler[p].token.expires_in - TOKEN_EXPIRY_MARGIN]_vars

\* C22: no job id is returned by two fetch_next_job calls.
C22_JobClaimedOnce == \A j \in JobIds : fetched[j] <= 1

\* The routes behind _require_key.
KeyGuarded == {"register", "create_job", "next_job", "complete_job", "complete"}

\* C23: a request to a route behind the shared secret that presents no key
\* or another key is answered 401 at its first step and changes no table,
\* whatever HUB_API_KEY is configured (every such request of KeySpec presents
\* a key of WrongKeys).
C23_WrongKeyRejected ==
    [][\A p \in Procs :
          LET op == IF handler[p].pc # "idle" THEN handler[p].op
                    ELSE IF handler'[p] = Idle THEN response'.op
                    ELSE handler'[p].op
          IN  /\ handler'[p] # handler[p] \/ response'.op \in KeyGuarded
              /\ op \in KeyGuarded
              => /\ UNCHANGED <<hub_users, jobs, telegram_verifications>>
                 /\ handler'[p] = Idle
                 /\ response'.status = 401]_vars

\* C24: POST /posts with a valid session of user a, no API key and a body
\* naming another user is answered 403 forbidden and stores no post.
C24_PostUnderOwnIdOnly ==
    [][/\ response'.op = "save_post"
       /\ response'.api_key = ""
       /\ response'.authorization.bearer
       /\ VerifyToken(response'.authorization, clock).ok
       /\ VerifyToken(response'.authorization, clock).sub \notin {"", response'.user_id}
       => /\ response'.status = 403
          /\ response'.detail = "forbidden"
          /\ UNCHANGED posts]_vars

\* C25: POST /posts with neither a bearer token nor an API key, while
\* HUB_API_KEY is configured, is answered 401 login_required and stores no
\* post.
C25_PostRequiresLogin ==
    [][/\ response'.op = "save_post"
       /\ response'.api_key = ""
       /\ ~response'.authorization.bearer
       /\ HUB_API_KEY # ""
       => /\ response'.status = 401
          /\ response'.detail = "login_required"
          /\ UNCHANGED posts]_vars

C27_ProfileNeverWrites ==
    [][response'.op = "update_profile"
       => /\ UNCHANGED hub_users
          /\ response'.user_id \in DOMAIN hub_users /\ response'.telegram_id # NULL
             => /\ response'.status = 400
                /\ response'.detail = "telegram_verification_required"]_vars

\* u1, registered with the handle 55555, asked for the handle @alice and was
\* refused; the stored handle is still 55555.
C27_Witness ==
    /\ response.op = "update_profile"
    /\ response.user_id = "u1"
    /\ response.telegram_id = <<"@", "a", "l", "i", "c", "e">>
    /\ response.detail = "telegram_verification_required"
    /\ "u1" \in DOMAIN hub_users
    /\ hub_users["u1"].telegram_id = ValidRaw

\* C28: challenge creation without a bearer token is answered 401
\* login_required, with the session of a subject that is not registered 403
\* not_registered; in both cases no challenge is created or deleted and no
\* nonce is drawn.
C28_ChallengeNeedsRegisteredSession ==
    [][response'.op = "challenge" /\ response'.pc = "idle"
       => LET r == response'
          IN  /\ ~r.authorization.bearer
                 => /\ r.status = 401 /\ r.detail = "login_required"
                    /\ UNCHANGED <<telegram_verifications, issued>>
              /\ r.authorization \in {SessionOf(u) : u \in UserIds \ DOMAIN hub_users}
                 => /\ r.status = 403 /\ r.detail = "not_registered"
                    /\ UNCHANGED <<telegram_verifications, issued>>]_vars
      /\ [][\A p \in Procs :
               handler'[p].pc = "create_tx" /\ handler[p].pc = "idle"
               => /\ handler'[p].authorization.bearer
                  /\ handler'[p].user_id \in DOMAIN hub_users]_vars

\* u2, who is not registered, was refused while a challenge of u1 stood.
C28_Witness ==
    /\ response.op = "challenge"
    /\ response.authorization = SessionOf("u2")
    /\ response.status = 403
    /\ response.detail = "not_registered"
    /\ \E n \in DOMAIN telegram_verifications :
           telegram_verifications[n].user_id = "u1"

\* C29: a publish that finds the stored token_expires_at strictly later than
\* now makes no refresh call, goes on to the write call with the stored
\* access token and never writes naver_accounts; the refresh call is made
\* exactly when now is at or past the stored expiry.
C29_LiveTokenUsedAsStored ==
    /\ [][\A p \in Procs :
            /\ handler[p].op = "publish"
            /\ handler[p].pc = "token"
            /\ handler'[p] # handler[p]
            => /\ handler[p].account.token_expires_at > clock
                  => /\ UNCHANGED <<refresh_calls, write_calls, naver_accounts>>
                     /\ handler'[p].pc = "write"
                     /\ handler'[p].refreshes = 0
                     /\ handler'[p].now = clock
                     /\ handler'[p].account = handler[p].account
                     /\ handler'[p].token.access_token = handler[p].account.access_token
               /\ refresh_calls' = refresh_calls + 1
                  <=> handler[p].account.token_expires_at <= clock]_vars
    /\ [][\A p \in Procs :
            /\ handler[p].op = "publish"
            /\ handler[p].pc = "write"
            /\ handler'[p] # handler[p]
            => /\ handler[p].refreshes = 1
                  <=> handler[p].account.token_expires_at <= handler[p].now
               /\ handler[p].refreshes = 0
                  => /\ response'.token.access_token = handler[p].account.access_token
                     /\ UNCHANGED <<refresh_calls, naver_accounts>>]_vars
    /\ [][\A p \in Procs :
            /\ handler[p].op = "publish"
            /\ handler'[p] # handler[p]
            /\ naver_accounts' # naver_accounts
            => handler[p].pc = "upsert_refreshed" /\ handler[p].refreshes = 1]_vars

\* A publish of u1 went through with the stored token, which expires one
\* Tick after the instant the handler read, and no refresh call was ever made.
C29_Witness ==
    /\ response.op = "publish"
    /\ response.status = 200
    /\ response.refreshes = 0
    /\ response.account.token_expires_at = response.now + TickSeconds
    /\ response.token.access_token = response.account.access_token
    /\ naver_accounts["u1"] = response.account
    /\ refresh_calls = 0
    /\ write_calls = 1

\* C30: a refresh the provider answers with success yields the returned
\* access token and the returned refresh token, or the one sent when none
\* is returned; the upsert that follows stores these with the client id,
\* client secret and redirect URI as they were, and the write call of the
\* request carries the refreshed access token.
C30_RefreshedAccountStored ==
    /\ [][\A p \in Procs :
            /\ handler[p].op = "publish"
            /\ handler[p].pc = "token"
            /\ handler'[p].pc = "upsert_refreshed"
            => \E data \in TokenResponses :
                  /\ data.ok
                  /\ handler'[p].account = handler[p].account
                  /\ handler'[p].token.access_token = data.access_token
                  /\ handler'[p].token.refresh_token =
                        IF data.refresh_token = ""
                        THEN handler[p].account.refresh_token
                        ELSE data.refresh_token
                  /\ handler'[p].token.expires_in = data.expires_in]_vars
    /\ [][\A p \in Procs :
            /\ handler[p].op = "publish"
            /\ handler[p].pc = "upsert_refreshed"
            /\ handler'[p] # handler[p]
            => LET h == handler[p]
                   old == naver_accounts[h.user_id]
                   new == naver_accounts'[h.user_id]
               IN  /\ new.access_token = h.token.access_token
                   /\ new.refresh_token = h.token.refresh_token
                   /\ new.client_id = old.client_id
                   /\ new.client_secret = old.client_secret
                   /\ new.redirect_uri = old.redirect_uri
                   /\ new.client_id = h.account.client_id
                   /\ \A u \in DOMAIN naver_accounts \ {h.user_id} :
                          naver_accounts'[u] = naver_accounts[u]
                   /\ DOMAIN naver_accounts' = DOMAIN naver_accounts
                   /\ handler'[p].pc = "write"
                   /\ handler'[p].token = h.token]_vars
    /\ [][\A p \in Procs :
            /\ handler[p].op = "publish"
            /\ handler[p].pc = "write"
            /\ handler[p].refreshes = 1
            /\ handler'[p] # handler[p]
            => response'.token = handler[p].token]_vars

\* u1's stale access-1 was refreshed to access-2 with no refresh token
\* returned: the publish went through with access-2, and the stored
\* account holds access-2 and still refresh-1.
C30_Witness ==
    /\ response.op = "publish"
    /\ response.status = 200
    /\ response.refreshes = 1
    /\ response.account.access_token = "access-1"
    /\ response.account.refresh_token = "refresh-1"
    /\ response.token.access_token = "access-2"
    /\ naver_accounts["u1"].access_token = "access-2"
    /\ naver_accounts["u1"].refresh_token = "refresh-1"
    /\ naver_accounts["u1"].client_id = response.account.client_id

\* C31: a fail call that reads a row whose expires_at lies before the call's
\* instant returns expired, whatever the attempt count, and leaves no row for
\* the nonce; it returns neither failed nor max_attempts and counts no
\* attempt.
C31_ExpiredFail ==
    [][\A p \in Procs :
          (/\ handler[p].pc = "fail_write"
           /\ handler'[p].pc # "fail_write"
           /\ handler[p].row.expires_at < handler[p].now)
          => (/\ response'.failed = "expired"
              /\ response'.failed \notin {"failed", "max_attempts"}
              /\ response'.row.attempt_count = handler[p].row.attempt_count
              /\ handler[p].nonce \notin DOMAIN telegram_verifications'
              /\ UNCHANGED fail_calls)]_vars

\* An expired challenge one failure short of max_attempts was failed once
\* more: expired, and the row is gone.
C31_Witness ==
    /\ response.failed = "expired"
    /\ response.row.expires_at < response.now
    /\ response.row.attempt_count >= 1
    /\ response.row.attempt_count + 1 = max_attempts
    /\ response.nonce \notin DOMAIN telegram_verifications

\* C32: the callback that passes the state check deletes the state, whatever
\* the exchange answers afterwards, and the state is never stored again; a
\* callback that presents a state after another callback passed the check
\* with it is answered 400 invalid_state at once, before any exchange, with
\* users, identity mappings and provider accounts as they were.
C32_StateConsumedByFirstCallback ==
    /\ [][\A p \in Procs :
            (/\ handler[p].op = "callback"
             /\ handler[p].pc = "pop_delete"
             /\ handler'[p] # handler[p])
            => handler[p].state \notin DOMAIN oauth_states']_vars
    /\ [][\A s \in OauthStates :
            (popped[s] >= 1 /\ s \notin DOMAIN oauth_states)
            => s \notin DOMAIN oauth_states']_vars
    /\ [][\A p \in Procs :
            (/\ handler[p].pc = "idle"
             /\ handler'[p] # handler[p]
             /\ LET g == IF handler'[p].pc = "idle" THEN response' ELSE handler'[p]
                IN  /\ g.op = "callback"
                    /\ g.state # 0
                    /\ \/ popped[g.state] >= 1
                       \/ \E q \in Procs \ {p} :
                              /\ handler[q].op = "callback"
                              /\ handler[q].state = g.state)
            => (/\ handler'[p].pc = "idle"
                /\ response'.status = 400
                /\ response'.detail \in {"invalid_state", "missing_code_or_state"}
                /\ UNCHANGED <<hub_users, naver_identities, naver_accounts>>)]_vars

\* C33: the upsert of a publish-time refresh writes the access token, the
\* refresh token and the expiry of that one refresh, whatever row a
\* concurrent refresh of the same user stored meanwhile, and no other step
\* of a publish writes naver_accounts: the store holds the refresh whose
\* upsert committed last.  Each request goes on to its write call and is
\* answered by what the provider answers to that call.
C33_LastRefreshWins ==
    /\ [][\A p \in Procs :
            /\ handler[p].op = "publish"
            /\ handler[p].pc = "upsert_refreshed"
            /\ handler'[p] # handler[p]
            => LET h == handler[p]
               IN  /\ naver_accounts'[h.user_id] =
                          AccountRow(h.account.client_id, h.account.client_secret,
                                     h.account.redirect_uri, h.token.access_token,
                                     h.token.refresh_token,
                                     ExpiresAt(h.token.expires_in, clock))
                   /\ handler'[p] = [h EXCEPT !.pc = "write"]]_vars
    /\ [][\A p \in Procs :
            /\ handler[p].op = "publish"
            /\ handler[p].pc # "upsert_refreshed"
            /\ handler'[p] # handler[p]
            => UNCHANGED naver_accounts]_vars
    /\ [][\A p \in Procs :
            /\ handler[p].op = "publish"
            /\ handler[p].pc = "write"
            /\ handler'[p] # handler[p]
            => /\ response'.status \in {200, 500}
               /\ response'.token = handler[p].token
               /\ write_calls' = write_calls + 1]_vars

\* Two publishes of u1 loaded the same expired row and both refreshed; the
\* one answered last, with 200, had stored access-2 first, and the store
\* holds access-1, refresh-1 and the expiry of the other refresh, whose
\* upsert came last.
C33_Witness ==
    /\ response.op = "publish"
    /\ response.status = 200
    /\ response.refreshes = 1
    /\ response.account.refresh_token = ""
    /\ response.token.access_token = "access-2"
    /\ refresh_calls = 2
    /\ write_calls = 2
    /\ naver_accounts["u1"] =
          AccountRow(response.account.client_id, response.account.client_secret,
                     response.account.redirect_uri, "access-1", "refresh-1",
                     ExpiresAt(10, response.now))

\* C34: a mapping s -> u, once stored, stays as it is; a login callback that
\* got subject s while s is mapped to u resolves to u, adds no user in any
\* of its steps, and when it answers 200 it answers for u with s still
\* mapped to u.
C34_ReturningSubjectResolves ==
    /\ [][\A s \in DOMAIN naver_identities :
            /\ s \in DOMAIN naver_identities'
            /\ naver_identities'[s] = naver_identities[s]]_vars
    /\ [][\A p \in Procs :
            /\ handler[p].op = "callback"
            /\ handler[p].pc = "get_mapping"
            /\ handler'[p] # handler[p]
            /\ handler[p].naver_id \in DOMAIN naver_identities
            => /\ handler'[p].user_id = naver_identities[handler[p].naver_id]
               /\ handler'[p].mapped_user_id = naver_identities[handler[p].naver_id]
               /\ handler'[p].user_id \in DOMAIN hub_users]_vars
    /\ [][\A p \in Procs :
            /\ handler[p].op = "callback"
            /\ handler[p].mapped_user_id # ""
            /\ handler'[p] # handler[p]
            => /\ hub_users' = hub_users
               /\ handler[p].user_id = handler[p].mapped_user_id
               /\ response'.status = 200
                  => /\ response'.user_id = handler[p].mapped_user_id
                     /\ naver_identities'[handler[p].naver_id] = handler[p].mapped_user_id
                     /\ response'.session.sub = handler[p].mapped_user_id]_vars

\* A login with subject n1 found n1 mapped and was answered 200 for the
\* mapped user, who is the only user there is.
C34_Witness ==
    /\ response.op = "callback"
    /\ response.flow = "login"
    /\ response.status = 200
    /\ response.naver_id = "n1"
    /\ response.mapped_user_id = NaverUser("n1")
    /\ response.user_id = NaverUser("n1")
    /\ naver_identities["n1"] = NaverUser("n1")
    /\ DOMAIN hub_users = {NaverUser("n1")}

\* C35: calling upsert_naver_account or link_naver_identity a second time
\* with the same arguments, at the same or another instant, leaves the rows
\* the first call left, apart from their timestamps; after a call the key
\* has the one row of the arguments; and the tables hold at most one account
\* row per user_id and at most one mapping row per naver_id.
C35_UpsertsIdempotent ==
    /\ \A r1, r2 \in account_rows : r1.user_id = r2.user_id => r1 = r2
    /\ \A r1, r2 \in identity_rows : r1.naver_id = r2.naver_id => r1 = r2
    /\ \A a \in AccountArgs, t1, t2 \in Times :
          LET once == UpsertNaverAccountRows(account_rows, NaverAccountRowAt(a, t1))
              twice == UpsertNaverAccountRows(once, NaverAccountRowAt(a, t2))
          IN  /\ AccountsWithoutTime(twice) = AccountsWithoutTime(once)
              /\ {r \in once : r.user_id = a.user_id} = {NaverAccountRowAt(a, t1)}
              /\ {r \in once : r.user_id # a.user_id}
                    = {r \in account_rows : r.user_id # a.user_id}
    /\ \A a \in IdentityArgs, t1, t2 \in Times :
          LET once == LinkNaverIdentityRows(identity_rows, NaverIdentityRowAt(a, t1))
              twice == LinkNaverIdentityRows(once, NaverIdentityRowAt(a, t2))
          IN  /\ IdentitiesWithoutTime(twice) = IdentitiesWithoutTime(once)
              /\ {r \in once : r.naver_id = a.naver_id} = {NaverIdentityRowAt(a, t1)}
              /\ {r \in once : r.naver_id # a.naver_id}
                    = {r \in identity_rows : r.naver_id # a.naver_id}
    /\ response.op = "upsert_naver_account"
          => {r \in account_rows : r.user_id = response.user_id}
                = {NaverAccountRowAt(response.account, response.now)}
    /\ response.op = "link_naver_identity"
          => {r \in identity_rows : r.naver_id = response.naver_id}
                = {NaverIdentityRowAt([naver_id |-> response.naver_id,
                                       user_id |-> response.user_id], response.now)}

\* upsert_naver_account was called for u1 with the arguments of the row it
\* found, stored a Tick earlier: the row differs in updated_at alone, and
\* the row of u2 and a mapping stand beside it.
C35_Witness ==
    /\ response.op = "upsert_naver_account"
    /\ response.user_id = "u1"
    /\ response.row.present
    /\ response.row.rows = {NaverAccountRowAt(response.account, response.now - TickSeconds)}
    /\ NaverAccountRowAt(response.account, response.now) \in account_rows
    /\ Cardinality(account_rows) = 2
    /\ Cardinality(identity_rows) = 2

\* C36: with one max_attempts m in every call, every stored challenge, and
\* every row a call has read, has 0 <= attempt_count < m; consume never
\* returns max_attempts, and max_attempts_reached is only ever the answer of
\* a fail call.
C36_AttemptCountBelowMax ==
    /\ \A n \in DOMAIN telegram_verifications :
          /\ telegram_verifications[n].attempt_count >= 0
          /\ telegram_verifications[n].attempt_count < max_attempts
    /\ \A p \in Procs :
          /\ handler[p].row.present /\ handler[p].op = "complete"
                => handler[p].row.attempt_count < max_attempts
          /\ handler[p].challenge # "max_attempts"
    /\ response.challenge # "max_attempts"
    /\ response.detail = "max_attempts_reached"
          => /\ response.pc = "fail_write"
             /\ response.failed = "max_attempts"
             /\ response.row.attempt_count + 1 = max_attempts

\* A consume of a challenge one failure short of max_attempts returned ok.
C36_Witness ==
    \E p \in Procs :
        /\ handler[p].pc = "is_user"
        /\ handler[p].challenge = "ok"
        /\ max_attempts >= 2
        /\ fail_calls[handler[p].nonce] = max_attempts - 1
        /\ consumed_ok[handler[p].nonce] = 1

\* C37: no step moves the status of a job backwards along queued,
\* processing, done; a job that is done stays done.
C37_JobStatusAdvances ==
    [][\A j \in DOMAIN jobs :
          /\ j \in DOMAIN jobs'
          /\ jobs[j].status = "done" => jobs'[j].status = "done"
          /\ jobs[j].status = "processing" => jobs'[j].status \in {"processing", "done"}]_vars

\* C38: the write transaction of create_telegram_verification for user u
\* leaves every challenge that belongs to another user and is not expired at
\* the call's instant as it was; a row it removes belongs to u or is
\* expired; and the nonce it stores was not stored before.
C38_CreateLeavesOthers ==
    [][\A p \in Procs :
          /\ handler[p].pc = "create_tx"
          /\ handler'[p] # handler[p]
          => LET h == handler[p]
             IN  /\ h.nonce \notin DOMAIN telegram_verifications
                 /\ \A n \in DOMAIN telegram_verifications :
                        /\ telegram_verifications[n].user_id # h.user_id
                        /\ telegram_verifications[n].expires_at >= h.now
                        => /\ n \in DOMAIN telegram_verifications'
                           /\ telegram_verifications'[n] = telegram_verifications[n]
                 /\ \A n \in DOMAIN telegram_verifications \ DOMAIN telegram_verifications' :
                        \/ telegram_verifications[n].user_id = h.user_id
                        \/ telegram_verifications[n].expires_at < h.now
                 /\ DOMAIN telegram_verifications' \ DOMAIN telegram_verifications
                        = {h.nonce}]_vars

\* u2 created a challenge at the very instant u1's expires: u1's is still
\* stored.
C38_Witness ==
    /\ response.op = "challenge"
    /\ response.status = 200
    /\ response.user_id = "u2"
    /\ response.now > 0
    /\ \E n \in DOMAIN telegram_verifications :
          /\ telegram_verifications[n].user_id = "u1"
          /\ telegram_verifications[n].expires_at = response.now

\* C39: a completion that is answered telegram_id_already_linked has
\* consumed its challenge, whose nonce is stored no more and never again, and
\* changed no row of hub_users in any of its steps; a completion that then
\* presents the nonce is answered invalid_nonce by its first read.
C39_AlreadyLinkedConsumesChallenge ==
    /\ [](response.op = "complete" /\ response.detail = "telegram_id_already_linked"
          => /\ response.status = 409
             /\ response.challenge = "ok"
             /\ consumed_ok[response.nonce] >= 1
             /\ response.nonce \notin DOMAIN telegram_verifications)
    /\ [][response'.op = "complete" /\ response'.detail = "telegram_id_already_linked"
          => UNCHANGED hub_users]_vars
    /\ [][\A p \in Procs :
            /\ handler[p].op = "complete"
            /\ handler[p].pc # "set_update"
            /\ handler'[p] # handler[p]
            => UNCHANGED hub_users]_vars
    /\ [][\A n \in Nonces :
            consumed_ok[n] >= 1 => n \notin DOMAIN telegram_verifications']_vars
    /\ [][\A p \in Procs :
            /\ handler[p].op = "complete"
            /\ handler[p].pc = "consume_select"
            /\ consumed_ok[handler[p].nonce] >= 1
            /\ handler'[p] # handler[p]
            => /\ response'.status = 400
               /\ response'.detail = "invalid_nonce"]_vars

\* u2's completion with the handle u1 holds was answered 409: the nonce is
\* gone and u2 has no handle.
C39_Witness ==
    /\ response.op = "complete"
    /\ response.status = 409
    /\ response.detail = "telegram_id_already_linked"
    /\ response.user_id = "u2"
    /\ response.nonce \notin DOMAIN telegram_verifications
    /\ hub_users["u1"].telegram_id = response.telegram_id
    /\ hub_users["u2"].telegram_id = NULL

\* C40: a callback answers 200 only from its upsert, and then the session it
\* issues has as subject the user id the account row was upserted under in
\* that step; in the link flow this is the user id saved with the consumed
\* state, in the login flow the user the subject of the profile is mapped
\* to; and no other step issues a session.
C40_SessionForUpsertedUser ==
    /\ [][\A p \in Procs :
            /\ handler[p].op = "callback"
            /\ handler'[p] # handler[p]
            /\ response'.status = 200
            => LET h == handler[p]
               IN  /\ h.pc = "upsert"
                   /\ response'.session.bearer
                   /\ response'.session.sub = h.user_id
                   /\ response'.session.sub # ""
                   /\ h.user_id \in DOMAIN naver_accounts'
                   /\ naver_accounts'[h.user_id].access_token = h.token.access_token
                   /\ \A v \in DOMAIN naver_accounts' \ {h.user_id} :
                          /\ v \in DOMAIN naver_accounts
                          /\ naver_accounts'[v] = naver_accounts[v]
                   /\ h.flow = saved_states[h.state].flow
                   /\ h.flow = "link" => h.user_id = saved_states[h.state].user_id
                   /\ h.flow = "login"
                      => /\ saved_states[h.state].user_id = ""
                         /\ h.user_id = naver_identities[h.naver_id]]_vars
    /\ [][response'.session.bearer
          => response'.op = "callback" /\ response'.status = 200]_vars

\* A login callback was answered with a session for the user of its subject
\* after a link state of u1 was consumed; u1's account stands beside the new
\* user's.
C40_Witness ==
    /\ response.op = "callback"
    /\ response.flow = "login"
    /\ response.status = 200
    /\ response.session.sub = NaverUser("n1")
    /\ naver_accounts[NaverUser("n1")].access_token = response.token.access_token
    /\ "u1" \in DOMAIN naver_accounts
    /\ \E s \in DOMAIN saved_states :
          /\ saved_states[s].flow = "link"
          /\ saved_states[s].user_id = "u1"
          /\ popped[s] >= 1

====
